---- MODULE Spec2Model ----
(***************************************************************************)
(* A model of the virtual-DOM library: createVNode, normalizeVNode,        *)
(* createElement, updateElement, renderElement and the event manager       *)
(* (setupEventListeners, addEvent, removeEvent).                           *)
(*                                                                         *)
(* JavaScript values are records tagged by k (the typeof / shape):         *)
(*   undefined, null, boolean, number, string, function, array, object     *)
(*   (a props object, entries in insertion order) and vnode                *)
(*   ({type, props, children}).                                            *)
(***************************************************************************)
EXTENDS Integers, Sequences, FiniteSets, TLC

VARIABLES
  pc,             \* the step the scenario of the current specification is at
  raw,            \* normalizer scenario: the raw tree passed to normalizeVNode
  out1,           \* normalizeVNode(raw)
  out2,           \* normalizeVNode(normalizeVNode(raw))
  nodes,          \* the document: every DOM node created so far, by node id
  eventHandlers,  \* eventManager: WeakMap element -> Map eventType -> Set handler
  roots,          \* eventManager: Set of containers with listeners installed
  listeners,      \* the event listeners on each node: node -> event type -> count
  _vNode,         \* container._vNode: the tree last rendered, by container
  log,            \* the DOM mutations and registry calls of the last operation
  thrown,         \* the error the last operation threw ("" when it returned)
  oldTree,        \* reconcile scenario: the tree the live nodes were created from
  newTree,        \* reconcile scenario: the tree updateElement brings them to
  calls,          \* event scenario: addEvent calls per <<element, type, handler>>;
                  \* render scenario: the renderElement calls made so far
  order,          \* event scenario: per <<element, type>>, the handlers in the
                  \* order of their first addEvent since they were last removed
  lastCall        \* the last call made, and what it did

normVars == <<raw, out1, out2>>
domVars == <<nodes, eventHandlers, roots, listeners, _vNode, log, thrown>>
treeVars == <<oldTree, newTree>>
evVars == <<calls, order, lastCall>>
vars == <<pc, normVars, domVars, treeVars, evVars>>

(***************************************************************************)
(* Bounds                                                                  *)
(***************************************************************************)
\* longest children list / array literal of a generated tree
MaxLen == 2
\* longest children list of a tree of the reconcile scenario
MaxKids == 3
\* most entries of a props object of the reconcile scenario
MaxProps == 2
\* most addEvent calls for one handler between two removeEvent calls
MaxAdds == 2
\* most renderElement calls of one run of the render scenario
MaxRenders == 3

(***************************************************************************)
(* JavaScript values                                                       *)
(***************************************************************************)
Undef == [k |-> "undefined"]
Null == [k |-> "null"]
Bool(b) == [k |-> "boolean", b |-> b]
Num(n) == [k |-> "number", n |-> n]
Str(s) == [k |-> "string", s |-> s]
Fn(f) == [k |-> "function", f |-> f]
Arr(items) == [k |-> "array", items |-> items]
Obj(entries) == [k |-> "object", e |-> entries]
VNode(type, props, children) ==
  [k |-> "vnode", type |-> type, props |-> props, children |-> children]

\* the number NaN: typeof "number", falsy, not === to any value, itself included
NaN == [k |-> "number", n |-> 0, nan |-> TRUE]
IsNaN(v) == v.k = "number" /\ "nan" \in DOMAIN v

\* not yet normalized / not applicable
None == [k |-> "none"]

\* v == null
isNullish(v) == v.k \in {"null", "undefined"}

\* String(n) for the numbers of the model
NumToString(n) ==
  CASE n = 0 -> "0"
    [] n = 1 -> "1"
    [] n = 2 -> "2"
    [] n = 7 -> "7"
    [] n = 42 -> "42"
    [] OTHER -> "NaN"

\* !!v
Truthy(v) ==
  CASE isNullish(v) -> FALSE
    [] v.k = "boolean" -> v.b
    [] v.k = "number" -> v.n # 0
    [] v.k = "string" -> v.s # ""
    [] OTHER -> TRUE

\* typeof v === "string" || typeof v === "number"
isTextLike(v) == v.k \in {"string", "number"}

(***************************************************************************)
(* Sequence helpers                                                        *)
(***************************************************************************)
SeqsUpTo(S, n) == UNION {[1..m -> S] : m \in 0..n}

RECURSIVE SelectKeep(_, _)
\* Array.prototype.filter with the predicate given as the set of kept indices
SelectKeep(s, keep) ==
  IF s = <<>> THEN <<>>
  ELSE LET rest == SelectKeep(Tail(s), {i - 1 : i \in keep \ {1}})
       IN IF 1 \in keep THEN <<Head(s)>> \o rest ELSE rest

RECURSIVE ConcatAll(_)
ConcatAll(ss) == IF ss = <<>> THEN <<>> ELSE Head(ss) \o ConcatAll(Tail(ss))

(***************************************************************************)
(* createVNode                                                             *)
(***************************************************************************)
RECURSIVE flatInfinity(_)
\* children.flat(Infinity)
flatInfinity(items) ==
  ConcatAll([i \in 1..Len(items) |->
               IF items[i].k = "array" THEN flatInfinity(items[i].items)
               ELSE <<items[i]>>])

\* faulty variant: the filter keeps the truthy children only
keptByCreateVNode_truthy(c) == Truthy(c)

\* child !== null && child !== undefined && child !== false && child !== true
keptByCreateVNode(c) == ~isNullish(c) /\ c.k # "boolean"

createVNode(type, props, children) ==
  LET flat == flatInfinity(children)
  IN VNode(type, props,
           SelectKeep(flat, {i \in 1..Len(flat) : keptByCreateVNode(flat[i])}))

(***************************************************************************)
(* Function components of the scenarios.  A component is a function value  *)
(* Fn(name); Call gives what the function returns for its props argument.  *)
(***************************************************************************)
\* props.children of a props object (undefined when there is no such entry)
PropsGet(props, key) ==
  IF props.k # "object" THEN Undef
  ELSE LET hits == {i \in 1..Len(props.e) : props.e[i].key = key}
       IN IF hits = {} THEN Undef ELSE props.e[CHOOSE i \in hits : TRUE].val

ComponentNames == {"Nothing", "Fragment", "Box", "Outer", "Zero"}

\*   Nothing  = ()             => null
\*   Fragment = ({ children }) => children
\*   Box      = ({ children }) => createVNode("p", null, children)
\*   Outer    = ({ children }) => createVNode(Fragment, null, children)
\*   Zero     = ()             => 0
\*   Panel    = ({ children }) => createVNode(Box, null, children)
Call(f, props) ==
  CASE f = "Nothing" -> Null
    [] f = "Fragment" -> PropsGet(props, "children")
    [] f = "Box" ->
         createVNode(Str("p"), Null, <<PropsGet(props, "children")>>)
    [] f = "Outer" ->
         createVNode(Fn("Fragment"), Null, <<PropsGet(props, "children")>>)
    [] f = "Zero" -> Num(0)
    [] f = "Panel" ->
         createVNode(Fn("Box"), Null, <<PropsGet(props, "children")>>)

(***************************************************************************)
(* normalizeVNode                                                          *)
(***************************************************************************)
\* vNode == null || typeof vNode === "boolean"
isEmptyInput_falsy(v) == ~Truthy(v) \/ v.k = "boolean"
isEmptyInput(v) == isNullish(v) \/ v.k = "boolean"

\* child !== "" && child != null
keptByNormalize(c) == ~(c.k = "string" /\ c.s = "") /\ ~isNullish(c)

\* { ...vNode.props, children: vNode.children.length > 0 ? vNode.children : undefined }
componentProps(v) ==
  LET base == IF v.props.k = "object" THEN v.props.e ELSE <<>>
      kids == IF Len(v.children) > 0 THEN Arr(v.children) ELSE Undef
      hits == {i \in 1..Len(base) : base[i].key = "children"}
  IN IF hits = {}
     THEN Obj(base \o <<[key |-> "children", val |-> kids]>>)
     ELSE Obj([i \in 1..Len(base) |->
                 IF i \in hits THEN [key |-> "children", val |-> kids]
                 ELSE base[i]])

RECURSIVE normalizeVNode(_)

\* faulty variant: the filter runs on the raw items, before the map
normalizeItems_filterFirst(items) ==
  LET kept == SelectKeep(items, {i \in 1..Len(items) : keptByNormalize(items[i])})
  IN [i \in 1..Len(kept) |-> normalizeVNode(kept[i])]

\* items.map(normalizeVNode).filter((child) => child !== "" && child != null)
normalizeItems(items) ==
  LET mapped == [i \in 1..Len(items) |-> normalizeVNode(items[i])]
  IN SelectKeep(mapped, {i \in 1..Len(mapped) : keptByNormalize(mapped[i])})

normalizeVNode(v) ==
  IF isEmptyInput(v) THEN Str("")
  ELSE IF v.k = "number" THEN Str(IF IsNaN(v) THEN "NaN" ELSE NumToString(v.n))
  ELSE IF v.k = "string" THEN v
  ELSE IF v.k = "array" THEN Arr(normalizeItems(v.items))
  ELSE IF v.type.k = "function"
    THEN normalizeVNode(Call(v.type.f, componentProps(v)))
  ELSE [v EXCEPT !.children = normalizeItems(v.children)]

RECURSIVE componentCalls(_)
\* the calls vNode.type(props) that normalizeVNode(v) makes, in their order
componentCalls(v) ==
  IF isEmptyInput(v) \/ v.k \in {"number", "string"} THEN <<>>
  ELSE IF v.k = "array"
    THEN ConcatAll([i \in 1..Len(v.items) |-> componentCalls(v.items[i])])
  ELSE IF v.type.k = "function"
    THEN <<[f |-> v.type.f, props |-> componentProps(v)]>>
           \o componentCalls(Call(v.type.f, componentProps(v)))
  ELSE ConcatAll([i \in 1..Len(v.children) |-> componentCalls(v.children[i])])

(***************************************************************************)
(* eventManager: addEvent, removeEvent                                     *)
(*                                                                         *)
(* A world w is the mutable state the library's functions work on:         *)
(*   w.nodes (the document), w.eventHandlers, w.log, w.thrown.             *)
(* A Map is a function on its keys; a Set is the sequence of its members   *)
(* in insertion order, without repetition.                                 *)
(***************************************************************************)
EmptyMap == [x \in {} |-> <<>>]

Range(s) == {s[i] : i \in 1..Len(s)}

MapPut(m, key, val) == [x \in DOMAIN m \cup {key} |-> IF x = key THEN val ELSE m[x]]

MapDelete(m, key) == [x \in DOMAIN m \ {key} |-> m[x]]

\* Set.prototype.add
SetAdd(set, h) == IF h \in Range(set) THEN set ELSE Append(set, h)

\* Set.prototype.delete
SetDelete(set, h) == SelectKeep(set, {i \in 1..Len(set) : set[i] # h})

LogEntry(op, node, child, index, name, value) ==
  [op |-> op, node |-> node, child |-> child, index |-> index,
   name |-> name, value |-> value]

Logged(w, entry) == [w EXCEPT !.log = Append(@, entry)]

\* faulty variant: the handlers of a type are kept in a list, not in a Set
addEvent_list(w, element, eventType, handler) ==
  LET eh == w.eventHandlers
      handlers == IF element \in DOMAIN eh THEN eh[element] ELSE EmptyMap
      set == IF eventType \in DOMAIN handlers THEN handlers[eventType] ELSE <<>>
  IN Logged([w EXCEPT !.eventHandlers =
                 MapPut(eh, element, MapPut(handlers, eventType, Append(set, handler)))],
            LogEntry("addEvent", element, 0, 0, eventType, handler))

\* faulty variant: a handler added again moves to the end of its Set
addEvent_moveToEnd(w, element, eventType, handler) ==
  LET eh == w.eventHandlers
      handlers == IF element \in DOMAIN eh THEN eh[element] ELSE EmptyMap
      set == IF eventType \in DOMAIN handlers THEN handlers[eventType] ELSE <<>>
  IN Logged([w EXCEPT !.eventHandlers =
                 MapPut(eh, element,
                        MapPut(handlers, eventType,
                               Append(SetDelete(set, handler), handler)))],
            LogEntry("addEvent", element, 0, 0, eventType, handler))

addEvent(w, element, eventType, handler) ==
  LET eh == w.eventHandlers
      handlers == IF element \in DOMAIN eh THEN eh[element] ELSE EmptyMap
      set == IF eventType \in DOMAIN handlers THEN handlers[eventType] ELSE <<>>
  IN Logged([w EXCEPT !.eventHandlers =
                 MapPut(eh, element, MapPut(handlers, eventType, SetAdd(set, handler)))],
            LogEntry("addEvent", element, 0, 0, eventType, handler))

\* faulty variant: the element's entry is kept when its last event type goes
removeEvent_keepsElement(w, element, eventType, handler) ==
  LET eh == w.eventHandlers
      w0 == Logged(w, LogEntry("removeEvent", element, 0, 0, eventType, handler))
  IN IF element \notin DOMAIN eh THEN w0
     ELSE IF eventType \notin DOMAIN eh[element] THEN w0
     ELSE LET set == SetDelete(eh[element][eventType], handler)
              handlers == IF Len(set) = 0 THEN MapDelete(eh[element], eventType)
                          ELSE MapPut(eh[element], eventType, set)
          IN [w0 EXCEPT !.eventHandlers = MapPut(eh, element, handlers)]

\* faulty variant: the event type's entry goes whether or not its Set is empty
removeEvent_dropsType(w, element, eventType, handler) ==
  LET eh == w.eventHandlers
      w0 == Logged(w, LogEntry("removeEvent", element, 0, 0, eventType, handler))
  IN IF element \notin DOMAIN eh THEN w0
     ELSE IF eventType \notin DOMAIN eh[element] THEN w0
     ELSE LET handlers == MapDelete(eh[element], eventType)
          IN [w0 EXCEPT !.eventHandlers =
                IF DOMAIN handlers = {} THEN MapDelete(eh, element)
                ELSE MapPut(eh, element, handlers)]

removeEvent(w, element, eventType, handler) ==
  LET eh == w.eventHandlers
      w0 == Logged(w, LogEntry("removeEvent", element, 0, 0, eventType, handler))
  IN IF element \notin DOMAIN eh THEN w0
     ELSE IF eventType \notin DOMAIN eh[element] THEN w0
     ELSE LET set == SetDelete(eh[element][eventType], handler)
              handlers == IF Len(set) = 0 THEN MapDelete(eh[element], eventType)
                          ELSE MapPut(eh[element], eventType, set)
          IN [w0 EXCEPT !.eventHandlers =
                IF DOMAIN handlers = {} THEN MapDelete(eh, element)
                ELSE MapPut(eh, element, handlers)]

(***************************************************************************)
(* The platform's DOM, as far as the library uses it.  Node ids are the    *)
(* indices of w.nodes; parent 0 is "no parent".  childNodes[index] of the  *)
(* source is 0-based, sequences here are 1-based.                          *)
(***************************************************************************)
BOOLEAN_PROPS == {"checked", "disabled", "selected", "readOnly"}

NewNode(nodeType, tag, data) ==
  [nodeType |-> nodeType, tag |-> tag, data |-> data,
   attrs |-> [x \in {} |-> ""],
   props |-> [p \in BOOLEAN_PROPS |-> FALSE],
   childNodes |-> <<>>, parent |-> 0]

Throw(w, error) == IF w.thrown = "" THEN [w EXCEPT !.thrown = error] ELSE w

\* String(value), as setAttribute and createTextNode coerce their argument
ToStr(v) ==
  CASE v.k = "string" -> v.s
    [] v.k = "number" -> IF IsNaN(v) THEN "NaN" ELSE NumToString(v.n)
    [] v.k = "boolean" -> IF v.b THEN "true" ELSE "false"
    [] v.k = "null" -> "null"
    [] v.k = "undefined" -> "undefined"
    [] OTHER -> "[object]"

\* a === b
StrictEq(a, b) == a.k = b.k /\ a = b /\ ~IsNaN(a)

\* document.createTextNode / createElement / createDocumentFragment
Allocate(w, node) ==
  [w |-> [w EXCEPT !.nodes = Append(@, node)], id |-> Len(w.nodes) + 1]

IndexOf(s, x) == IF x \in Range(s) THEN CHOOSE i \in 1..Len(s) : s[i] = x ELSE 0

\* parent.childNodes[index]; 0 when there is no such child
ChildAt(w, parent, index) ==
  IF index + 1 <= Len(w.nodes[parent].childNodes)
  THEN w.nodes[parent].childNodes[index + 1] ELSE 0

\* the nodes a node inserts: a fragment inserts its children, emptying itself
Inserted(w, child) ==
  IF w.nodes[child].nodeType = "fragment" THEN w.nodes[child].childNodes
  ELSE <<child>>

Adopt(w, parent, child, kids) ==
  LET moved == Range(Inserted(w, child))
  IN [w EXCEPT !.nodes =
        [id \in 1..Len(w.nodes) |->
           IF id = parent THEN [w.nodes[id] EXCEPT !.childNodes = kids]
           ELSE IF id \in moved THEN [w.nodes[id] EXCEPT !.parent = parent]
           ELSE IF id = child THEN [w.nodes[id] EXCEPT !.childNodes = <<>>]
           ELSE w.nodes[id]]]

appendChild(w, parent, child) ==
  Logged(Adopt(w, parent, child, w.nodes[parent].childNodes \o Inserted(w, child)),
         LogEntry("appendChild", parent, child,
                  Len(w.nodes[parent].childNodes), "", Undef))

removeChild(w, parent, child) ==
  LET kids == w.nodes[parent].childNodes
      at == IndexOf(kids, child)
  IN Logged([w EXCEPT !.nodes[parent].childNodes =
                        SelectKeep(kids, {i \in 1..Len(kids) : i # at}),
                      !.nodes[child].parent = 0],
            LogEntry("removeChild", parent, child, at - 1, "", Undef))

replaceChild(w, parent, newChild, oldChild) ==
  LET kids == w.nodes[parent].childNodes
      at == IndexOf(kids, oldChild)
      w1 == Adopt(w, parent, newChild,
                  SubSeq(kids, 1, at - 1) \o Inserted(w, newChild)
                    \o SubSeq(kids, at + 1, Len(kids)))
  IN Logged([w1 EXCEPT !.nodes[oldChild].parent = 0],
            LogEntry("replaceChild", parent, oldChild, at - 1, "", Undef))

\* node.textContent = text: a text node takes the data; an element drops its
\* children for one text node (none when text is "")
setTextContent(w, node, text) ==
  LET n == w.nodes[node]
      w0 == Logged(w, LogEntry("textContent", node, 0, 0, "", Str(text)))
  IN IF n.nodeType = "text" THEN [w0 EXCEPT !.nodes[node].data = text]
     ELSE LET cleared ==
                [w0 EXCEPT !.nodes =
                   [id \in 1..Len(w0.nodes) |->
                      IF id = node THEN [w0.nodes[id] EXCEPT !.childNodes = <<>>]
                      ELSE IF id \in Range(n.childNodes)
                        THEN [w0.nodes[id] EXCEPT !.parent = 0]
                      ELSE w0.nodes[id]]]
              t == Allocate(cleared, [NewNode("text", "", text) EXCEPT !.parent = node])
          IN IF text = "" THEN cleared
             ELSE [t.w EXCEPT !.nodes[node].childNodes = <<t.id>>]

\* target.setAttribute(name, value); only elements have the method
setAttribute(w, target, name, value) ==
  IF w.nodes[target].nodeType # "element"
  THEN Throw(w, "TypeError: setAttribute is not a function")
  ELSE Logged([w EXCEPT !.nodes[target].attrs = MapPut(@, name, ToStr(value))],
              LogEntry("setAttribute", target, 0, 0, name, value))

\* target.removeAttribute(name)
removeAttribute(w, target, name) ==
  IF w.nodes[target].nodeType # "element"
  THEN Throw(w, "TypeError: removeAttribute is not a function")
  ELSE Logged([w EXCEPT !.nodes[target].attrs = MapDelete(@, name)],
              LogEntry("removeAttribute", target, 0, 0, name, Undef))

\* target[key] = value for a boolean DOM property: the element keeps ToBoolean(value)
setProperty(w, target, key, value) ==
  Logged([w EXCEPT !.nodes[target].props[key] = Truthy(value)],
         LogEntry("setProperty", target, 0, 0, key, value))

(***************************************************************************)
(* Attribute keys                                                          *)
(***************************************************************************)
\* key.startsWith("on"), for the keys of the model
startsWithOn(key) ==
  key \in {"onClick", "onclick", "onInput", "onChange", "onBlur", "onFocus",
           "onKeyDown", "onMouseOver", "onSubmit"}

\* key.slice(2).toLowerCase()
eventTypeOf(key) ==
  CASE key \in {"onClick", "onclick"} -> "click"
    [] key = "onInput" -> "input"
    [] key = "onChange" -> "change"
    [] key = "onBlur" -> "blur"
    [] key = "onFocus" -> "focus"
    [] key = "onKeyDown" -> "keydown"
    [] key = "onMouseOver" -> "mouseover"
    [] key = "onSubmit" -> "submit"

\* Object.entries(props || {})
entriesOf(props) == IF props.k = "object" THEN props.e ELSE <<>>

\* key in props
hasKey(entries, key) == \E i \in 1..Len(entries) : entries[i].key = key

\* props[key]
valueOf(entries, key) ==
  IF hasKey(entries, key)
  THEN entries[CHOOSE i \in 1..Len(entries) : entries[i].key = key].val
  ELSE Undef

(***************************************************************************)
(* createElement.js                                                        *)
(***************************************************************************)
\* one pass of the forEach of updateAttributes (createElement.js)
createElement_setAttribute(w, el, key, value) ==
  IF startsWithOn(key) /\ value.k = "function"
    THEN addEvent(w, el, eventTypeOf(key), value)
  ELSE IF key = "className" THEN setAttribute(w, el, "class", value)
  ELSE IF key \in BOOLEAN_PROPS THEN setProperty(w, el, key, value)
  ELSE setAttribute(w, el, key, value)

RECURSIVE createElement_forEach(_, _, _, _)
createElement_forEach(w, el, entries, i) ==
  IF w.thrown # "" \/ i > Len(entries) THEN w
  ELSE createElement_forEach(
         createElement_setAttribute(w, el, entries[i].key, entries[i].val),
         el, entries, i + 1)

\* updateAttributes($el, props) of createElement.js
createElement_updateAttributes(w, el, props) ==
  IF ~Truthy(props) THEN w
  ELSE createElement_forEach(w, el, entriesOf(props), 1)

RECURSIVE createElement(_, _)
RECURSIVE appendCreated(_, _, _, _, _)

RECURSIVE appendCreated_skipsComponents(_, _, _, _, _)
\* faulty variant: a child whose type is a function is passed over
appendCreated_skipsComponents(w, parent, items, i, skipNullish) ==
  IF w.thrown # "" \/ i > Len(items) THEN w
  ELSE IF (skipNullish /\ isNullish(items[i]))
            \/ (items[i].k = "vnode" /\ items[i].type.k = "function")
    THEN appendCreated_skipsComponents(w, parent, items, i + 1, skipNullish)
  ELSE LET c == createElement(w, items[i])
       IN IF c.w.thrown # "" THEN c.w
          ELSE appendCreated_skipsComponents(appendChild(c.w, parent, c.id), parent,
                                             items, i + 1, skipNullish)

\* items.forEach(child => parent.appendChild(createElement(child))), the
\* children of an element skipping child == null
appendCreated(w, parent, items, i, skipNullish) ==
  IF w.thrown # "" \/ i > Len(items) THEN w
  ELSE IF skipNullish /\ isNullish(items[i])
    THEN appendCreated(w, parent, items, i + 1, skipNullish)
  ELSE LET c == createElement(w, items[i])
       IN IF c.w.thrown # "" THEN c.w
          ELSE appendCreated(appendChild(c.w, parent, c.id), parent, items,
                             i + 1, skipNullish)

\* returns the world and the id of the node created (no node is returned when
\* it threw: callers look at thrown first)
createElement(w, vNode) ==
  IF vNode.k = "vnode" /\ vNode.type.k = "function"
    THEN [w |-> Throw(w, "Error: normalizeVNode first"), id |-> 0]
  ELSE IF isNullish(vNode) \/ vNode.k = "boolean"
    THEN Allocate(w, NewNode("text", "", ""))
  ELSE IF isTextLike(vNode)
    THEN Allocate(w, NewNode("text", "", ToStr(vNode)))
  ELSE IF vNode.k = "array"
    THEN LET f == Allocate(w, NewNode("fragment", "", ""))
         IN [w |-> appendCreated(f.w, f.id, vNode.items, 1, FALSE), id |-> f.id]
  ELSE LET el == Allocate(w, NewNode("element", vNode.type.s, ""))
           w1 == createElement_updateAttributes(el.w, el.id, vNode.props)
       IN [w |-> appendCreated(w1, el.id, vNode.children, 1, TRUE), id |-> el.id]

(***************************************************************************)
(* updateElement.js                                                        *)
(***************************************************************************)
\* faulty variant: a removed boolean key is taken off as a string attribute
updateAttributes_removed_asAttribute(w, target, key, newEntries, oldEntries) ==
  IF hasKey(newEntries, key) THEN w
  ELSE IF startsWithOn(key)
    THEN removeEvent(w, target, eventTypeOf(key), valueOf(oldEntries, key))
  ELSE IF key = "className" THEN removeAttribute(w, target, "class")
  ELSE removeAttribute(w, target, key)

\* one pass of the first forEach of updateAttributes: a key of the old props
updateAttributes_removed(w, target, key, newEntries, oldEntries) ==
  IF hasKey(newEntries, key) THEN w
  ELSE IF startsWithOn(key)
    THEN removeEvent(w, target, eventTypeOf(key), valueOf(oldEntries, key))
  ELSE IF key = "className" THEN removeAttribute(w, target, "class")
  ELSE IF key \in BOOLEAN_PROPS THEN setProperty(w, target, key, Bool(FALSE))
  ELSE removeAttribute(w, target, key)

\* faulty variant: the handler of the old props stays registered
updateAttributes_changed_keepsOld(w, target, key, value, oldEntries) ==
  IF StrictEq(valueOf(oldEntries, key), value) THEN w
  ELSE IF startsWithOn(key) THEN addEvent(w, target, eventTypeOf(key), value)
  ELSE IF key = "className" THEN setAttribute(w, target, "class", value)
  ELSE IF key \in BOOLEAN_PROPS THEN setProperty(w, target, key, value)
  ELSE setAttribute(w, target, key, value)

\* one pass of the second forEach of updateAttributes: an entry of the new props
updateAttributes_changed(w, target, key, value, oldEntries) ==
  IF StrictEq(valueOf(oldEntries, key), value) THEN w
  ELSE IF startsWithOn(key)
    THEN LET old == valueOf(oldEntries, key)
             w1 == IF Truthy(old) THEN removeEvent(w, target, eventTypeOf(key), old)
                   ELSE w
         IN addEvent(w1, target, eventTypeOf(key), value)
  ELSE IF key = "className" THEN setAttribute(w, target, "class", value)
  ELSE IF key \in BOOLEAN_PROPS THEN setProperty(w, target, key, value)
  ELSE setAttribute(w, target, key, value)

RECURSIVE updateAttributes_forEachOld(_, _, _, _, _)
updateAttributes_forEachOld(w, target, newEntries, oldEntries, i) ==
  IF w.thrown # "" \/ i > Len(oldEntries) THEN w
  ELSE updateAttributes_forEachOld(
         updateAttributes_removed(w, target, oldEntries[i].key, newEntries, oldEntries),
         target, newEntries, oldEntries, i + 1)

RECURSIVE updateAttributes_forEachNew(_, _, _, _, _)
updateAttributes_forEachNew(w, target, newEntries, oldEntries, i) ==
  IF w.thrown # "" \/ i > Len(newEntries) THEN w
  ELSE updateAttributes_forEachNew(
         updateAttributes_changed(w, target, newEntries[i].key, newEntries[i].val,
                                  oldEntries),
         target, newEntries, oldEntries, i + 1)

\* updateAttributes(target, originNewProps, originOldProps) of updateElement.js
updateAttributes(w, target, originNewProps, originOldProps) ==
  LET newEntries == entriesOf(originNewProps)
      oldEntries == entriesOf(originOldProps)
  IN updateAttributes_forEachNew(
       updateAttributes_forEachOld(w, target, newEntries, oldEntries, 1),
       target, newEntries, oldEntries, 1)

\* node.type, node.props, node.children[i] (undefined where there is none)
typeOfNode(v) == IF v.k = "vnode" THEN v.type ELSE Undef
propsOfNode(v) == IF v.k = "vnode" THEN v.props ELSE Undef
childOfNode(v, i) == IF i + 1 <= Len(v.children) THEN v.children[i + 1] ELSE Undef

\* faulty variant: the old child is removed and the created node goes to the end
replaceWithCreated_appends(w, parentElement, newNode, child) ==
  LET c == createElement(w, newNode)
  IN IF c.w.thrown # "" THEN c.w
     ELSE appendChild(removeChild(c.w, parentElement, child), parentElement, c.id)

\* parentElement.replaceChild(createElement(newNode), child)
replaceWithCreated(w, parentElement, newNode, child) ==
  LET c == createElement(w, newNode)
  IN IF c.w.thrown # "" THEN c.w ELSE replaceChild(c.w, parentElement, c.id, child)

RECURSIVE removeSurplus_stopsEarly(_, _, _, _)
\* faulty variant: the loop runs while i > newLength and leaves index newLength
removeSurplus_stopsEarly(w, targetElement, i, newLength) ==
  IF i <= newLength THEN w
  ELSE LET child == ChildAt(w, targetElement, i)
       IN removeSurplus_stopsEarly(
            IF child # 0 THEN removeChild(w, targetElement, child) ELSE w,
            targetElement, i - 1, newLength)

RECURSIVE removeSurplus_oneTooMany(_, _, _, _)
\* faulty variant: the loop runs while i >= newLength - 1 and takes a kept child
removeSurplus_oneTooMany(w, targetElement, i, newLength) ==
  IF i < newLength - 1 \/ i < 0 THEN w
  ELSE LET child == ChildAt(w, targetElement, i)
       IN removeSurplus_oneTooMany(
            IF child # 0 THEN removeChild(w, targetElement, child) ELSE w,
            targetElement, i - 1, newLength)

\* for (let i = oldLength - 1; i >= newLength; i--) removeChild(childNodes[i])
RECURSIVE removeSurplus(_, _, _, _)
removeSurplus(w, targetElement, i, newLength) ==
  IF i < newLength THEN w
  ELSE LET child == ChildAt(w, targetElement, i)
       IN removeSurplus(
            IF child # 0 THEN removeChild(w, targetElement, child) ELSE w,
            targetElement, i - 1, newLength)

\* faulty variant: a changed text is a new text node put in place of the old one
updateText_replaces(w, parentElement, newNode, child) ==
  replaceChild(Allocate(w, NewNode("text", "", ToStr(newNode))).w,
               parentElement, Len(w.nodes) + 1, child)

\* child.textContent = String(newNode)
updateText(w, parentElement, newNode, child) ==
  setTextContent(w, child, ToStr(newNode))

RECURSIVE updateElement(_, _, _, _, _)
RECURSIVE updateChildren(_, _, _, _, _, _)

\* for (let i = 0; i < maxLength; i++) updateElement(target, new[i], old[i], i)
updateChildren(w, targetElement, newNode, oldNode, i, maxLength) ==
  IF w.thrown # "" \/ i >= maxLength THEN w
  ELSE updateChildren(
         updateElement(w, targetElement, childOfNode(newNode, i),
                       childOfNode(oldNode, i), i),
         targetElement, newNode, oldNode, i + 1, maxLength)

\* faulty variant: an element that is missing at the index is created and
\* appended
updateSameType_createsMissing(w, parentElement, newNode, oldNode, index) ==
  LET targetElement == ChildAt(w, parentElement, index)
      w1 == updateAttributes(w, targetElement, propsOfNode(newNode),
                             propsOfNode(oldNode))
      newLength == Len(newNode.children)
      oldLength == Len(oldNode.children)
      maxLength == IF newLength > oldLength THEN newLength ELSE oldLength
      w2 == updateChildren(w1, targetElement, newNode, oldNode, 0, maxLength)
  IN IF targetElement = 0
       THEN LET c == createElement(w, newNode)
            IN IF c.w.thrown # "" THEN c.w ELSE appendChild(c.w, parentElement, c.id)
     ELSE IF w1.thrown # "" THEN w1
     ELSE IF newNode.k # "vnode" \/ oldNode.k # "vnode"
       THEN Throw(w1, "TypeError: children is undefined")
     ELSE IF w2.thrown # "" THEN w2
     ELSE IF oldLength > newLength
       THEN removeSurplus(w2, targetElement, oldLength - 1, newLength)
     ELSE w2

\* the reuse of a same-type element (the tail of updateElement)
updateSameType(w, parentElement, newNode, oldNode, index) ==
  LET targetElement == ChildAt(w, parentElement, index)
      w1 == updateAttributes(w, targetElement, propsOfNode(newNode),
                             propsOfNode(oldNode))
      newLength == Len(newNode.children)
      oldLength == Len(oldNode.children)
      maxLength == IF newLength > oldLength THEN newLength ELSE oldLength
      w2 == updateChildren(w1, targetElement, newNode, oldNode, 0, maxLength)
  IN IF targetElement = 0 THEN w
     ELSE IF w1.thrown # "" THEN w1
     ELSE IF newNode.k # "vnode" \/ oldNode.k # "vnode"
       THEN Throw(w1, "TypeError: children is undefined")
     ELSE IF w2.thrown # "" THEN w2
     ELSE IF oldLength > newLength
       THEN removeSurplus(w2, targetElement, oldLength - 1, newLength)
     ELSE w2

updateElement(w, parentElement, newNode, oldNode, index) ==
  LET child == ChildAt(w, parentElement, index)
  IN IF w.thrown # "" THEN w
     ELSE IF ~Truthy(newNode) /\ Truthy(oldNode)
       THEN IF child # 0 THEN removeChild(w, parentElement, child) ELSE w
     ELSE IF Truthy(newNode) /\ ~Truthy(oldNode)
       THEN LET c == createElement(w, newNode)
            IN IF c.w.thrown # "" THEN c.w ELSE appendChild(c.w, parentElement, c.id)
     ELSE IF isTextLike(newNode)
       THEN IF isTextLike(oldNode)
            THEN IF ~StrictEq(newNode, oldNode) /\ child # 0
                 THEN updateText(w, parentElement, newNode, child)
                 ELSE w
            ELSE IF child # 0 THEN replaceWithCreated(w, parentElement, newNode, child)
                 ELSE w
     ELSE IF isTextLike(oldNode)
       THEN IF child # 0 THEN replaceWithCreated(w, parentElement, newNode, child)
            ELSE w
     ELSE IF isNullish(newNode) \/ isNullish(oldNode)
       THEN Throw(w, "TypeError: cannot read properties of null")
     ELSE IF ~StrictEq(typeOfNode(newNode), typeOfNode(oldNode))
       THEN IF child # 0 THEN replaceWithCreated(w, parentElement, newNode, child)
            ELSE w
     ELSE updateSameType(w, parentElement, newNode, oldNode, index)

(***************************************************************************)
(* Raw trees of the normalizer scenario                                    *)
(***************************************************************************)
RawLeaves ==
  {Null, Undef, Bool(TRUE), Bool(FALSE), Num(0), Num(7), Str(""), Str("a")}

SomeProps == Obj(<<[key |-> "id", val |-> Str("x")]>>)

\* every shape built on one children list
ShapesOn(kids) ==
  {Arr(kids), VNode(Str("div"), Null, kids), VNode(Str("ul"), SomeProps, kids)}
    \cup {VNode(Fn(f), Null, kids) : f \in ComponentNames}

\* the nodes nested inside the depth-2 trees
RawInner ==
  {Null, Bool(FALSE), Num(0), Str("a")}
    \cup UNION {ShapesOn(kids) : kids \in {<<>>, <<Null>>, <<Str("a")>>}}

\* a raw tree is a leaf, or a shape over up to MaxLen leaves (depth 1), or a
\* shape over up to MaxLen inner nodes (depth 2)
IsRawTree(v) ==
  \/ v \in RawLeaves
  \/ \E m \in 0..MaxLen :
       \E kids \in [1..m -> RawLeaves] \cup [1..m -> RawInner] :
         v \in ShapesOn(kids)

(***************************************************************************)
(* Specification of the normalizer scenario:                               *)
(*   out1 = normalizeVNode(raw); out2 = normalizeVNode(out1)               *)
(***************************************************************************)
\* the parts of the state a scenario does not use
NormalizerIdle == raw = None /\ out1 = None /\ out2 = None
DomIdle ==
  /\ nodes = <<>>
  /\ eventHandlers = EmptyMap
  /\ roots = {}
  /\ listeners = EmptyMap
  /\ _vNode = EmptyMap
  /\ log = <<>>
  /\ thrown = ""
TreesIdle == oldTree = None /\ newTree = None
EventsIdle == calls = EmptyMap /\ order = EmptyMap /\ lastCall = None

InitNormalize ==
  /\ pc = "start"
  /\ IsRawTree(raw)
  /\ out1 = None
  /\ out2 = None
  /\ DomIdle
  /\ TreesIdle
  /\ EventsIdle

Normalize ==
  /\ pc = "start"
  /\ out1' = normalizeVNode(raw)
  /\ pc' = "normalized"
  /\ UNCHANGED <<raw, out2, domVars, treeVars, evVars>>

Renormalize ==
  /\ pc = "normalized"
  /\ out2' = normalizeVNode(out1)
  /\ pc' = "renormalized"
  /\ UNCHANGED <<raw, out1, domVars, treeVars, evVars>>

NextNormalize == Normalize \/ Renormalize

SpecNormalize == InitNormalize /\ [][NextNormalize]_vars

(***************************************************************************)
(* Specification of the construction scenario:                             *)
(*   out1 = createVNode(type, props, ...children)                          *)
(* raw holds the arguments of the call.                                    *)
(***************************************************************************)
RECURSIVE Wrap(_, _)
\* v inside depth array literals: v, [v], [[v]], ...
Wrap(v, depth) == IF depth = 0 THEN v ELSE Arr(<<Wrap(v, depth - 1)>>)

\* the values passed as children: the values the filter tells apart and a
\* description
ArgLeaves ==
  {Null, Undef, Bool(TRUE), Bool(FALSE), Num(0), Str(""), Str("a"),
   VNode(Str("p"), Null, <<>>)}

\* one variadic argument: a leaf, a leaf inside nested arrays, or an array of
\* a leaf followed by a leaf inside nested arrays
ArgItems ==
  {Wrap(l, depth) : l \in ArgLeaves, depth \in 0..2}
    \cup {Arr(<<a, Wrap(b, depth)>>) : a \in {Null, Str("a")},
                                       b \in {Bool(FALSE), Num(0)},
                                       depth \in 0..2}

\* type and props of the call: a tag with props, a component without
ArgHeads ==
  {[type |-> Str("div"), props |-> SomeProps],
   [type |-> Fn("Box"), props |-> Null]}

InitBuild ==
  /\ pc = "start"
  /\ \E head \in ArgHeads, children \in SeqsUpTo(ArgItems, MaxLen) :
       raw = [k |-> "arguments", type |-> head.type, props |-> head.props,
              children |-> children]
  /\ out1 = None
  /\ out2 = None
  /\ DomIdle
  /\ TreesIdle
  /\ EventsIdle

Build ==
  /\ pc = "start"
  /\ out1' = createVNode(raw.type, raw.props, raw.children)
  /\ pc' = "built"
  /\ UNCHANGED <<raw, out2, domVars, treeVars, evVars>>

NextBuild == Build

SpecBuild == InitBuild /\ [][NextBuild]_vars

(***************************************************************************)
(* Specification of the component scenario: normalizeVNode(raw) for a raw  *)
(* tree whose type is a function; lastCall keeps the call normalizeVNode   *)
(* makes to that function                                                  *)
(***************************************************************************)
\* the props of the descriptions: none, without and with an entry "children"
ComponentPropsObjects ==
  {Null, SomeProps,
   Obj(<<[key |-> "children", val |-> Str("x")]>>),
   Obj(<<[key |-> "children", val |-> Str("x")], [key |-> "id", val |-> Str("x")]>>)}

InitComponent ==
  /\ pc = "start"
  /\ \E f \in ComponentNames, props \in ComponentPropsObjects,
        children \in SeqsUpTo(RawLeaves, MaxLen) :
       raw = VNode(Fn(f), props, children)
  /\ out1 = None
  /\ out2 = None
  /\ DomIdle
  /\ TreesIdle
  /\ EventsIdle

\* normalizeVNode(raw): const props = {...}; const result = vNode.type(props);
\* return normalizeVNode(result)
Resolve ==
  /\ pc = "start"
  /\ out1' = normalizeVNode(raw)
  /\ lastCall' = [k |-> "component", f |-> raw.type.f, props |-> componentProps(raw),
                  result |-> Call(raw.type.f, componentProps(raw))]
  /\ pc' = "normalized"
  /\ UNCHANGED <<raw, out2, domVars, treeVars, calls, order>>

NextComponent == Resolve

SpecComponent == InitComponent /\ [][NextComponent]_vars

(***************************************************************************)
(* Canonical trees of the reconcile scenario                               *)
(***************************************************************************)
EmptyWorld == [nodes |-> <<>>, eventHandlers |-> EmptyMap, log |-> <<>>, thrown |-> ""]

\* the container: an attached, empty div (node 1)
Container == NewNode("element", "div", "")

\* the children the child-list trees are built from
KidNodes ==
  {Str("a"), Str("b"), VNode(Str("p"), Null, <<>>),
   VNode(Str("li"), Null, <<Str("a")>>)}

KidTrees == {VNode(Str("ul"), Null, kids) : kids \in SeqsUpTo(KidNodes, MaxKids)}

PropEntries ==
  {[key |-> "className", val |-> Str("c1")],
   [key |-> "className", val |-> Str("c2")],
   [key |-> "class", val |-> Str("c1")],
   [key |-> "disabled", val |-> Bool(TRUE)],
   [key |-> "onClick", val |-> Fn("h1")],
   [key |-> "onClick", val |-> Fn("h2")],
   [key |-> "onClick", val |-> Null],
   [key |-> "onclick", val |-> Fn("h1")]}

\* props objects: up to MaxProps entries with distinct keys, in any order
PropsObjects ==
  {Obj(e) : e \in {e \in SeqsUpTo(PropEntries, MaxProps) :
                     \A i, j \in 1..Len(e) : i # j => e[i].key # e[j].key}}

AttrTrees ==
  {VNode(Str("input"), props, <<>>) : props \in PropsObjects \cup {Null}}

\* trees compared at the top position: texts (the empty text too), raw numbers
\* and elements
TopTrees ==
  {Str(""), Str("a"), Str("b"), Num(0), Num(7), Str("7"), VNode(Str("p"), Null, <<>>),
   VNode(Str("h1"), Null, <<Str("a")>>), VNode(Str("h1"), Null, <<Str("b")>>),
   VNode(Str("h1"), Obj(<<[key |-> "id", val |-> Str("x")]>>), <<Str("b")>>)}

\* old and new tree are drawn from the same family
TreeFamilies == {KidTrees, AttrTrees, TopTrees}

(***************************************************************************)
(* Specification of the reconcile scenario:                                *)
(*   container.appendChild(createElement(oldTree));                        *)
(*   updateElement(container, newTree, oldTree, 0);                        *)
(*   setupEventListeners(container);                                       *)
(*   a click on the container's first child, an element with props         *)
(***************************************************************************)
World == [nodes |-> nodes, eventHandlers |-> eventHandlers, roots |-> roots,
          listeners |-> listeners, _vNode |-> _vNode, log |-> <<>>, thrown |-> "",
          visited |-> <<>>, invoked |-> <<>>]

\* the world after container.appendChild(createElement(tree)) on a new container
Materialized(tree) ==
  LET c == createElement([EmptyWorld EXCEPT !.nodes = <<Container>>], tree)
  IN IF c.w.thrown # "" THEN c.w ELSE appendChild(c.w, 1, c.id)

InitReconcile ==
  /\ pc = "start"
  /\ \E family \in TreeFamilies :
       \E old \in family, new \in family : oldTree = old /\ newTree = new
  /\ nodes = <<Container>>
  /\ eventHandlers = EmptyMap
  /\ roots = {}
  /\ listeners = EmptyMap
  /\ _vNode = EmptyMap
  /\ log = <<>>
  /\ thrown = ""
  /\ NormalizerIdle
  /\ EventsIdle

Materialize ==
  /\ pc = "start"
  /\ LET w == Materialized(oldTree)
     IN /\ nodes' = w.nodes
        /\ eventHandlers' = w.eventHandlers
        /\ log' = w.log
        /\ thrown' = w.thrown
  /\ pc' = "created"
  /\ UNCHANGED <<roots, listeners, _vNode, normVars, treeVars, evVars>>

Reconcile ==
  /\ pc = "created"
  /\ LET w == updateElement(World, 1, newTree, oldTree, 0)
     IN /\ nodes' = w.nodes
        /\ eventHandlers' = w.eventHandlers
        /\ log' = w.log
        /\ thrown' = w.thrown
  /\ pc' = "updated"
  /\ UNCHANGED <<roots, listeners, _vNode, normVars, treeVars, evVars>>

(***************************************************************************)
(* Specification of the unchanged-tree scenario:                           *)
(*   container.appendChild(createElement(oldTree));                        *)
(*   updateElement(container, oldTree, oldTree, 0)                         *)
(***************************************************************************)
\* whether a tree is canonical: texts and elements only
RECURSIVE IsCanonical(_)
IsCanonical(v) ==
  \/ v.k = "string"
  \/ /\ v.k = "vnode"
     /\ v.type.k = "string"
     /\ \A i \in 1..Len(v.children) : IsCanonical(v.children[i])

\* elements whose attributes hold a number: <input tabIndex={7}/>,
\* <input tabIndex={NaN}/>, <ul><li value={NaN}>a</li></ul>
NumberAttrTrees ==
  {VNode(Str("input"), Obj(<<[key |-> "tabIndex", val |-> Num(7)]>>), <<>>),
   VNode(Str("input"), Obj(<<[key |-> "tabIndex", val |-> NaN]>>), <<>>),
   VNode(Str("ul"), Null,
         <<VNode(Str("li"), Obj(<<[key |-> "value", val |-> NaN]>>), <<Str("a")>>)>>)}

\* the canonical trees of the reconcile scenario, and those with numbers as
\* attribute values
UnchangedTrees ==
  {t \in KidTrees \cup AttrTrees \cup TopTrees : IsCanonical(t)} \cup NumberAttrTrees

InitUnchanged ==
  /\ pc = "start"
  /\ oldTree \in UnchangedTrees
  /\ newTree = oldTree
  /\ nodes = <<Container>>
  /\ eventHandlers = EmptyMap
  /\ roots = {}
  /\ listeners = EmptyMap
  /\ _vNode = EmptyMap
  /\ log = <<>>
  /\ thrown = ""
  /\ NormalizerIdle
  /\ EventsIdle

NextUnchanged == Materialize \/ Reconcile

SpecUnchanged == InitUnchanged /\ [][NextUnchanged]_vars

(***************************************************************************)
(* Specification of the materialize scenario: createElement(raw) for a raw *)
(* tree that was not normalized, beside a container that already exists    *)
(***************************************************************************)
InitCreate ==
  /\ pc = "start"
  /\ IsRawTree(raw)
  /\ out1 = None
  /\ out2 = None
  /\ nodes = <<Container>>
  /\ eventHandlers = EmptyMap
  /\ roots = {}
  /\ listeners = EmptyMap
  /\ _vNode = EmptyMap
  /\ log = <<>>
  /\ thrown = ""
  /\ TreesIdle
  /\ EventsIdle

Create ==
  /\ pc = "start"
  /\ LET c == createElement(World, raw)
     IN /\ nodes' = c.w.nodes
        /\ eventHandlers' = c.w.eventHandlers
        /\ log' = c.w.log
        /\ thrown' = c.w.thrown
        /\ lastCall' = [k |-> "createElement", id |-> c.id]
  /\ pc' = "created"
  /\ UNCHANGED <<roots, listeners, _vNode, normVars, treeVars, calls, order>>

NextCreate == Create

SpecCreate == InitCreate /\ [][NextCreate]_vars

(***************************************************************************)
(* eventManager: setupEventListeners                                       *)
(***************************************************************************)
\* faulty variant: blur is delegated too
eventTypes_withBlur ==
  <<"click", "input", "change", "submit", "mouseover", "focus", "keydown", "blur">>

\* the eventTypes array of setupEventListeners
eventTypes == <<"click", "input", "change", "submit", "mouseover", "focus", "keydown">>

\* root.addEventListener(eventType, listener): every call passes a new
\* function, so every call adds a listener
addEventListener(w, root, eventType) ==
  LET ofRoot == IF root \in DOMAIN w.listeners THEN w.listeners[root] ELSE EmptyMap
      count == IF eventType \in DOMAIN ofRoot THEN ofRoot[eventType] ELSE 0
  IN [w EXCEPT !.listeners = MapPut(@, root, MapPut(ofRoot, eventType, count + 1))]

RECURSIVE setupEventListeners_forEach(_, _, _)
\* eventTypes.forEach((eventType) => root.addEventListener(eventType, ...))
setupEventListeners_forEach(w, root, i) ==
  IF i > Len(eventTypes) THEN w
  ELSE setupEventListeners_forEach(addEventListener(w, root, eventTypes[i]), root, i + 1)

\* faulty variant: the roots Set is kept but not asked
setupEventListeners_always(w, root) ==
  setupEventListeners_forEach([w EXCEPT !.roots = @ \cup {root}], root, 1)

setupEventListeners(w, root) ==
  IF root \in w.roots THEN w
  ELSE setupEventListeners_forEach([w EXCEPT !.roots = @ \cup {root}], root, 1)

(***************************************************************************)
(* renderElement.js                                                        *)
(***************************************************************************)
\* faulty variant: every container of the page is emptied
clearInnerHTML_everywhere(w, container) ==
  LET tops == {id \in 1..Len(w.nodes) :
                 w.nodes[id].parent = 0 /\ w.nodes[id].childNodes # <<>>}
  IN Logged([w EXCEPT !.nodes =
                [id \in 1..Len(w.nodes) |->
                   IF id \in tops THEN [w.nodes[id] EXCEPT !.childNodes = <<>>]
                   ELSE IF w.nodes[id].parent \in tops
                     THEN [w.nodes[id] EXCEPT !.parent = 0]
                   ELSE w.nodes[id]]],
            LogEntry("innerHTML", container, 0, 0, "", Str("")))

\* container.innerHTML = "": every child of the container is detached
clearInnerHTML(w, container) ==
  LET kids == Range(w.nodes[container].childNodes)
  IN Logged([w EXCEPT !.nodes =
                [id \in 1..Len(w.nodes) |->
                   IF id = container THEN [w.nodes[id] EXCEPT !.childNodes = <<>>]
                   ELSE IF id \in kids THEN [w.nodes[id] EXCEPT !.parent = 0]
                   ELSE w.nodes[id]]],
            LogEntry("innerHTML", container, 0, 0, "", Str("")))

\* faulty variant: a tree that normalizes to the stored tree is taken from the
\* store, its components are not called
normalizeCalls_memo(w, vNode, container) ==
  LET cs == componentCalls(vNode)
  IN IF container \in DOMAIN w._vNode /\ w._vNode[container] = normalizeVNode(vNode)
     THEN w
     ELSE [w EXCEPT !.log = @ \o [i \in 1..Len(cs) |->
                                    LogEntry("call", container, 0, 0, cs[i].f,
                                             cs[i].props)]]

\* const normalizedVNode = normalizeVNode(vNode): the log keeps the component
\* functions the call invokes
normalizeCalls(w, vNode, container) ==
  LET cs == componentCalls(vNode)
  IN [w EXCEPT !.log = @ \o [i \in 1..Len(cs) |->
                                 LogEntry("call", container, 0, 0, cs[i].f,
                                          cs[i].props)]]

\* faulty variant: the tree stored by the first render is never replaced
renderElement_keepsFirst(w, vNode, container) ==
  LET normalizedVNode == normalizeVNode(vNode)
      oldVNode == IF container \in DOMAIN w._vNode THEN w._vNode[container] ELSE Undef
      w0 == normalizeCalls(
              Logged(w, LogEntry("renderElement", container, 0, 0, "", vNode)),
              vNode, container)
      w1 == IF ~Truthy(oldVNode)
            THEN LET c == createElement(clearInnerHTML(w0, container), normalizedVNode)
                 IN IF c.w.thrown # "" THEN c.w ELSE appendChild(c.w, container, c.id)
            ELSE updateElement(w0, container, normalizedVNode, oldVNode, 0)
  IN IF w1.thrown # "" THEN w1
     ELSE setupEventListeners(
            IF container \in DOMAIN w._vNode THEN w1
            ELSE [w1 EXCEPT !._vNode = MapPut(@, container, normalizedVNode)],
            container)

\* renderElement(vNode, container); the log keeps the call itself for the
\* claims that count render calls.  (CHOOSE r \in {e(x) : x \in {v}} : TRUE is
\* e(v) with v evaluated once: the world a call returns is used many times.)
renderElement(w, vNode, container) ==
  LET normalizedVNode == normalizeVNode(vNode)
      oldVNode == IF container \in DOMAIN w._vNode THEN w._vNode[container] ELSE Undef
      w0 == normalizeCalls(
              Logged(w, LogEntry("renderElement", container, 0, 0, "", vNode)),
              vNode, container)
  IN CHOOSE r \in
       {IF w1.thrown # "" THEN w1
        ELSE setupEventListeners(
               [w1 EXCEPT !._vNode = MapPut(@, container, normalizedVNode)], container) :
          w1 \in {IF ~Truthy(oldVNode)
                  THEN LET c == createElement(clearInnerHTML(w0, container),
                                              normalizedVNode)
                       IN IF c.w.thrown # "" THEN c.w
                          ELSE appendChild(c.w, container, c.id)
                  ELSE updateElement(w0, container, normalizedVNode, oldVNode, 0)}} :
       TRUE

(***************************************************************************)
(* The functions the scenarios register as handlers.  A handler is a       *)
(* function value Fn(name); HandlerBody gives what the function does when  *)
(* it is called.                                                           *)
(***************************************************************************)
\* <div onClick={h1}><button onClick={inner}/></div>
DivButton(inner) ==
  VNode(Str("div"), Obj(<<[key |-> "onClick", val |-> Fn("h1")]>>),
        <<VNode(Str("button"), Obj(<<[key |-> "onClick", val |-> Fn(inner)]>>), <<>>)>>)

\* <div><button onClick={h1} onBlur={h2}/></div>
PlainDivButton ==
  VNode(Str("div"), Null,
        <<VNode(Str("button"),
                Obj(<<[key |-> "onClick", val |-> Fn("h1")],
                      [key |-> "onBlur", val |-> Fn("h2")]>>), <<>>)>>)

\* <Panel><Box>{0}</Box></Panel>
PanelBox == VNode(Fn("Panel"), Null, <<VNode(Fn("Box"), Null, <<Num(0)>>)>>)

\* <Nothing><Box>{0}</Box></Nothing>
NothingBox == VNode(Fn("Nothing"), Null, <<VNode(Fn("Box"), Null, <<Num(0)>>)>>)

\* <div onClick={h1}><span/></div>
DivSpan ==
  VNode(Str("div"), Obj(<<[key |-> "onClick", val |-> Fn("h1")]>>),
        <<VNode(Str("span"), Null, <<>>)>>)

\*   h1, h2     = (event) => {}
\*   swapInner  = (event) => renderElement(<div onClick={h1}><span/></div>, container 1)
\*   rebind     = (event) => renderElement(<div onClick={h1}><button onClick={h2}/></div>,
\*                                         container 1)
\*   toOther    = (event) => renderElement("a", container 2)
\*   addH2      = (event) => addEvent(event.target, event.type, h2)
\*   dropH1     = (event) => removeEvent(event.target, event.type, h1)
HandlerBody(f) ==
  CASE f = "swapInner" -> [k |-> "render", vNode |-> DivSpan, container |-> 1]
    [] f = "rebind" -> [k |-> "render", vNode |-> DivButton("h2"), container |-> 1]
    [] f = "toOther" -> [k |-> "render", vNode |-> Str("a"), container |-> 2]
    [] f = "addH2" -> [k |-> "addEvent", handler |-> Fn("h2")]
    [] f = "dropH1" -> [k |-> "removeEvent", handler |-> Fn("h1")]
    [] OTHER -> [k |-> "nothing"]

\* handler(event)
callHandler(w, handler, event) ==
  LET body == HandlerBody(handler.f)
  IN IF body.k = "render" THEN renderElement(w, body.vNode, body.container)
     ELSE IF body.k = "addEvent"
       THEN addEvent(w, event.target, event.type, body.handler)
     ELSE IF body.k = "removeEvent"
       THEN removeEvent(w, event.target, event.type, body.handler)
     ELSE w

(***************************************************************************)
(* eventManager: the listener setupEventListeners installs                 *)
(***************************************************************************)
\* target.parentElement; 0 when the parent is missing or is no element
parentElement(w, target) ==
  LET p == w.nodes[target].parent
  IN IF p # 0 /\ w.nodes[p].nodeType = "element" THEN p ELSE 0

RECURSIVE walkUp(_, _, _)
\* the nodes from target up to, not including, root: what the while loop
\* visits as long as no handler changes the document
walkUp(w, root, target) ==
  IF target = 0 \/ target = root THEN <<>>
  ELSE <<target>> \o walkUp(w, root, parentElement(w, target))

\* the place of an entry that was deleted from a Set while forEach runs on it
Deleted == [k |-> "deleted"]

RECURSIVE iteratedSet(_, _, _, _, _)
\* The Set object a forEach is running on, after the addEvent and removeEvent
\* calls lg[i..] made by the handler just called.  The calls reach this Set
\* object as long as it holds an entry: removeEvent drops an emptied Set from
\* the registry, and a later addEvent makes a new Set.
iteratedSet(entries, lg, i, target, eventType) ==
  IF i > Len(lg) THEN entries
  ELSE LET e == lg[i]
           reaches == /\ e.op \in {"addEvent", "removeEvent"}
                      /\ e.node = target /\ e.name = eventType
                      /\ \E j \in 1..Len(entries) : entries[j] # Deleted
           next == IF ~reaches THEN entries
                   ELSE IF e.op = "removeEvent"
                     THEN [j \in 1..Len(entries) |->
                             IF entries[j] = e.value THEN Deleted ELSE entries[j]]
                   ELSE IF e.value \in Range(entries) THEN entries
                   ELSE Append(entries, e.value)
       IN iteratedSet(next, lg, i + 1, target, eventType)

RECURSIVE invokeAll(_, _, _, _, _)
\* handlerSet.forEach((handler) => handler(event)): forEach visits the entries
\* of the live Set in insertion order, those added while it runs included and
\* those deleted before their turn left out; calling a value that is no
\* function throws
invokeAll(w, event, target, entries, i) ==
  IF w.thrown # "" \/ i > Len(entries) THEN w
  ELSE IF entries[i] = Deleted THEN invokeAll(w, event, target, entries, i + 1)
  ELSE IF entries[i].k # "function"
    THEN Throw(w, "TypeError: handler is not a function")
  ELSE CHOOSE r \in
         {invokeAll(w1, event, target,
                    iteratedSet(entries, w1.log, Len(w.log) + 1, target, event.type),
                    i + 1) :
            w1 \in {callHandler(
                      [w EXCEPT !.invoked =
                         Append(@, [node |-> target, handler |-> entries[i],
                                    event |-> event])],
                      entries[i], event)}} : TRUE

RECURSIVE listenerLoop_throughRoot(_, _, _, _, _)
\* faulty variant: the loop does not stop at root and walks to the top
listenerLoop_throughRoot(w, root, event, target, eventType) ==
  IF w.thrown # "" \/ target = 0 THEN w
  ELSE LET eh == w.eventHandlers
           w0 == [w EXCEPT !.visited = Append(@, target)]
           w1 == IF target \in DOMAIN eh /\ eventType \in DOMAIN eh[target]
                 THEN invokeAll(w0, event, target, eh[target][eventType], 1)
                 ELSE w0
       IN IF w1.thrown # "" THEN w1
          ELSE listenerLoop_throughRoot(w1, root, event, parentElement(w1, target),
                                        eventType)

RECURSIVE listenerLoop(_, _, _, _, _)
\* while (target && target !== root) { ...; target = target.parentElement }
listenerLoop(w, root, event, target, eventType) ==
  IF w.thrown # "" \/ target = 0 \/ target = root THEN w
  ELSE LET eh == w.eventHandlers
           w0 == [w EXCEPT !.visited = Append(@, target)]
       IN CHOOSE r \in
            {IF w1.thrown # "" THEN w1
             ELSE listenerLoop(w1, root, event, parentElement(w1, target), eventType) :
               w1 \in {IF target \in DOMAIN eh /\ eventType \in DOMAIN eh[target]
                       THEN invokeAll(w0, event, target, eh[target][eventType], 1)
                       ELSE w0}} : TRUE

\* the listener setupEventListeners puts on root for eventType, run for an
\* event object; w.visited and w.invoked keep the nodes the loop came to and
\* the handlers it called with their argument
listener(w, root, eventType, event) ==
  listenerLoop(w, root, event, event.target, eventType)

RECURSIVE bubblePath(_, _)
\* the propagation path of an event: its target and every node above it
bubblePath(w, node) ==
  IF node = 0 THEN <<>> ELSE <<node>> \o bubblePath(w, w.nodes[node].parent)

RECURSIVE runListeners(_, _, _, _, _)
\* the platform calls the listeners a node has for the event's type, one
\* after the other; an exception of a listener is reported and the next
\* listener is called all the same, thrown keeps the first one reported
runListeners(w, node, event, count, i) ==
  IF i > count THEN w
  ELSE CHOOSE r \in
         {runListeners([w1 EXCEPT !.thrown = IF w.thrown # "" THEN w.thrown ELSE @],
                       node, event, count, i + 1) :
            w1 \in {listener([w EXCEPT !.thrown = ""], node, event.type, event)}} : TRUE

RECURSIVE bubble(_, _, _, _)
\* the bubbling of one event along its path, from the target upward: every
\* node with listeners for the type has them run, an error thrown by one
\* listener does not keep the platform from calling the next
bubble(w, path, event, i) ==
  IF i > Len(path) THEN w
  ELSE LET node == path[i]
           count == IF node \in DOMAIN w.listeners
                         /\ event.type \in DOMAIN w.listeners[node]
                      THEN w.listeners[node][event.type] ELSE 0
       IN CHOOSE r \in {bubble(w1, path, event, i + 1) :
                           w1 \in {runListeners(w, node, event, count, 1)}} : TRUE

\* target.dispatchEvent(event) for an event that bubbles
dispatchEvent(w, event) == bubble(w, bubblePath(w, event.target), event, 1)

(***************************************************************************)
(* The last step of the reconcile scenario, and its specification          *)
(***************************************************************************)
\* setupEventListeners(container), as renderElement calls it after
\* updateElement (in the runs on the trees that differ in their props)
SetupContainer ==
  /\ pc = "updated"
  /\ oldTree \in AttrTrees
  /\ \E w \in {setupEventListeners(World, 1)} :
       /\ roots' = w.roots
       /\ listeners' = w.listeners
  /\ pc' = "listening"
  /\ UNCHANGED <<nodes, eventHandlers, _vNode, log, thrown, normVars, treeVars,
                 evVars>>

\* the click listener of the container runs for a click on the container's
\* first child
ClickFirstChild ==
  /\ pc = "listening"
  /\ 1 \in DOMAIN listeners
  /\ "click" \in DOMAIN listeners[1]
  /\ nodes[1].childNodes # <<>>
  /\ nodes[nodes[1].childNodes[1]].nodeType = "element"
  /\ \E r \in {listener(World, 1, "click",
                         [target |-> nodes[1].childNodes[1], type |-> "click"])} :
       /\ lastCall' = [k |-> "event", target |-> nodes[1].childNodes[1],
                       type |-> "click", root |-> 1, invoked |-> r.invoked]
       /\ log' = r.log
       /\ thrown' = r.thrown
  /\ pc' = "clicked"
  /\ UNCHANGED <<nodes, eventHandlers, roots, listeners, _vNode, normVars, treeVars,
                 calls, order>>

NextReconcile == Materialize \/ Reconcile \/ SetupContainer \/ ClickFirstChild

SpecReconcile == InitReconcile /\ [][NextReconcile]_vars

(***************************************************************************)
(* Specification of the drift scenario:                                    *)
(*   container.appendChild(createElement(oldTree));                        *)
(*   a live node is taken out of the document behind the library's back;   *)
(*   updateElement(container, newTree, oldTree, 0)                         *)
(***************************************************************************)
\* the trees of the scenario: texts, numbers, elements with and without
\* props, child lists; the new tree may be absent (undefined)
DriftTrees ==
  TopTrees
    \cup {VNode(Str("ul"), Null, kids) : kids \in SeqsUpTo(KidNodes, MaxLen)}
    \cup {VNode(Str("ul"), Obj(<<[key |-> "onClick", val |-> Fn("h1")]>>), <<Str("a")>>),
          VNode(Str("ul"), Obj(<<[key |-> "className", val |-> Str("c1")],
                                 [key |-> "onClick", val |-> Fn("h2")]>>), <<>>)}

InitDrift ==
  /\ pc = "start"
  /\ oldTree \in DriftTrees
  /\ newTree \in DriftTrees \cup {Undef}
  /\ nodes = <<Container>>
  /\ eventHandlers = EmptyMap
  /\ roots = {}
  /\ listeners = EmptyMap
  /\ _vNode = EmptyMap
  /\ log = <<>>
  /\ thrown = ""
  /\ NormalizerIdle
  /\ EventsIdle

\* parent.removeChild(parent.lastChild), called by other code: on the container
\* (its one child goes) or on the element created for oldTree
Detach ==
  /\ pc = "created"
  /\ \E parent \in {1, nodes[1].childNodes[1]} :
       /\ nodes[parent].childNodes # <<>>
       /\ LET child == nodes[parent].childNodes[Len(nodes[parent].childNodes)]
              w == removeChild(World, parent, child)
          IN /\ nodes' = w.nodes
             /\ log' = w.log
             /\ lastCall' = [k |-> "removeChild", parent |-> parent, child |-> child]
  /\ pc' = "drifted"
  /\ UNCHANGED <<eventHandlers, roots, listeners, _vNode, thrown, normVars, treeVars,
                 calls, order>>

\* updateElement(container, newTree, oldTree, 0) on the drifted document;
\* lastCall keeps the document and the registry the call started from
ReconcileDrifted ==
  /\ pc = "drifted"
  /\ LET w == updateElement(World, 1, newTree, oldTree, 0)
     IN /\ nodes' = w.nodes
        /\ eventHandlers' = w.eventHandlers
        /\ log' = w.log
        /\ thrown' = w.thrown
  /\ lastCall' = [k |-> "updateElement", detached |-> lastCall.parent,
                  nodes |-> nodes, eventHandlers |-> eventHandlers]
  /\ pc' = "updated after drift"
  /\ UNCHANGED <<roots, listeners, _vNode, normVars, treeVars, calls, order>>

NextDrift == Materialize \/ Detach \/ ReconcileDrifted

SpecDrift == InitDrift /\ [][NextDrift]_vars

(***************************************************************************)
(* Specification of the event scenario: addEvent, removeEvent,             *)
(* setupEventListeners and events dispatched on a fixed live tree          *)
(*   container(1) > div(2) > button(3)                                     *)
(***************************************************************************)
EventTree == VNode(Str("div"), Null, <<VNode(Str("button"), Null, <<>>)>>)

\* the nodes setupEventListeners is called on: the container and the div in it
EvRoot == 1
EvInner == 2
EvRoots == {EvRoot, EvInner}

\* the <<element, eventType, handler>> the scenario registers and unregisters
EvTriples ==
  {<<1, "click", "h2">>,
   <<2, "click", "h1">>, <<2, "click", "h2">>, <<2, "input", "h1">>,
   <<3, "click", "h1">>}

\* the <<element, eventType>> of EvTriples
EvSets == {<<t[1], t[2]>> : t \in EvTriples}

\* the <<target, eventType>> of the events the scenario dispatches
EvEvents == {<<2, "click">>, <<3, "click">>, <<3, "input">>}

InitEvents ==
  /\ pc = "idle"
  /\ nodes = Materialized(EventTree).nodes
  /\ eventHandlers = EmptyMap
  /\ roots = {}
  /\ listeners = EmptyMap
  /\ _vNode = EmptyMap
  /\ log = <<>>
  /\ thrown = ""
  /\ calls = [t \in EvTriples |-> 0]
  /\ order = [p \in EvSets |-> <<>>]
  /\ lastCall = None
  /\ NormalizerIdle
  /\ TreesIdle

\* whether handler is in the Set of element and eventType
Registered(eh, element, eventType, handler) ==
  /\ element \in DOMAIN eh
  /\ eventType \in DOMAIN eh[element]
  /\ handler \in Range(eh[element][eventType])

SetupEventListeners ==
  \E root \in EvRoots :
    /\ LET w == setupEventListeners(World, root)
       IN /\ roots' = w.roots
          /\ listeners' = w.listeners
    /\ lastCall' = [k |-> "setupEventListeners", root |-> root]
    /\ UNCHANGED <<pc, nodes, eventHandlers, _vNode, log, thrown, calls, order,
                   normVars, treeVars>>

AddEvent ==
  \E t \in EvTriples :
    /\ calls[t] < MaxAdds
    /\ LET w == addEvent(World, t[1], t[2], Fn(t[3]))
       IN /\ eventHandlers' = w.eventHandlers
          /\ log' = w.log
    /\ calls' = [calls EXCEPT ![t] = @ + 1]
    /\ order' = IF calls[t] = 0
                THEN [order EXCEPT ![<<t[1], t[2]>>] = Append(@, Fn(t[3]))]
                ELSE order
    /\ lastCall' = [k |-> "addEvent", triple |-> t,
                    had |-> Registered(eventHandlers, t[1], t[2], Fn(t[3]))]
    /\ UNCHANGED <<pc, nodes, roots, listeners, _vNode, thrown, normVars, treeVars>>

RemoveEvent ==
  \E t \in EvTriples :
    /\ LET w == removeEvent(World, t[1], t[2], Fn(t[3]))
       IN /\ eventHandlers' = w.eventHandlers
          /\ log' = w.log
    /\ calls' = [calls EXCEPT ![t] = 0]
    /\ order' = [order EXCEPT ![<<t[1], t[2]>>] = SetDelete(@, Fn(t[3]))]
    /\ lastCall' = [k |-> "removeEvent", triple |-> t,
                    had |-> Registered(eventHandlers, t[1], t[2], Fn(t[3]))]
    /\ UNCHANGED <<pc, nodes, roots, listeners, _vNode, thrown, normVars, treeVars>>

\* whether node is root or below it
RECURSIVE Under(_, _, _)
Under(w, node, root) ==
  node # 0 /\ (node = root \/ Under(w, w.nodes[node].parent, root))

\* an event bubbles from its target to a root that has a listener for its
\* type, and that listener runs
Dispatch ==
  \E e \in EvEvents, root \in EvRoots :
    /\ root \in DOMAIN listeners
    /\ e[2] \in DOMAIN listeners[root]
    /\ Under(World, e[1], root)
    /\ \E r \in {listener(World, root, e[2], [target |-> e[1], type |-> e[2]])} :
         /\ lastCall' = [k |-> "event", target |-> e[1], type |-> e[2],
                         root |-> root, invoked |-> r.invoked]
         /\ thrown' = r.thrown
    /\ log' = <<>>
    /\ UNCHANGED <<pc, nodes, eventHandlers, roots, listeners, _vNode, calls, order,
                   normVars, treeVars>>

\* one platform event: it bubbles from its target to the top of the document
\* and the listeners of every root on the way run
PlatformEvent ==
  \E e \in EvEvents :
    /\ \E r \in {dispatchEvent(World, [target |-> e[1], type |-> e[2]])} :
         /\ lastCall' = [k |-> "dispatchEvent", target |-> e[1], type |-> e[2],
                         invoked |-> r.invoked]
         /\ thrown' = r.thrown
    /\ log' = <<>>
    /\ UNCHANGED <<pc, nodes, eventHandlers, roots, listeners, _vNode, calls, order,
                   normVars, treeVars>>

NextEvents == SetupEventListeners \/ AddEvent \/ RemoveEvent \/ Dispatch \/ PlatformEvent

SpecEvents == InitEvents /\ [][NextEvents]_vars

(***************************************************************************)
(* Specification of the handler scenario: on the live tree                 *)
(*   container(1) > div(2) > button(3)                                     *)
(* with setupEventListeners(container) done, handlers are registered for   *)
(* click on the div and the button and clicks are dispatched; some of the  *)
(* handlers call addEvent or removeEvent for the event's target            *)
(***************************************************************************)
\* the functions registered: two that do nothing, one that registers h2 and
\* one that unregisters h1
DispatchHandlers == {"h1", "h2", "addH2", "dropH1"}

\* the elements handlers are registered on and clicks are dispatched at
DispatchElements == {2, 3}

\* the page after setupEventListeners(container)
DispatchPage ==
  setupEventListeners(
    [nodes |-> Materialized(EventTree).nodes, eventHandlers |-> EmptyMap,
     roots |-> {}, listeners |-> EmptyMap, _vNode |-> EmptyMap, log |-> <<>>,
     thrown |-> "", visited |-> <<>>, invoked |-> <<>>], 1)

InitDispatch ==
  /\ pc = "idle"
  /\ nodes = DispatchPage.nodes
  /\ eventHandlers = EmptyMap
  /\ roots = DispatchPage.roots
  /\ listeners = DispatchPage.listeners
  /\ _vNode = EmptyMap
  /\ log = <<>>
  /\ thrown = ""
  /\ EventsIdle
  /\ NormalizerIdle
  /\ TreesIdle

\* addEvent(element, "click", handler)
Register ==
  \E element \in DispatchElements, handler \in DispatchHandlers :
    /\ \E w \in {addEvent(World, element, "click", Fn(handler))} :
         /\ eventHandlers' = w.eventHandlers
         /\ log' = w.log
    /\ lastCall' = [k |-> "addEvent", element |-> element, handler |-> Fn(handler)]
    /\ UNCHANGED <<pc, nodes, roots, listeners, _vNode, thrown, calls, order,
                   normVars, treeVars>>

\* a click at the div or the button: the container's listener runs; lastCall
\* keeps the registry the dispatch started from
ClickAt ==
  \E target \in DispatchElements :
    /\ \E w \in {listener(World, 1, "click", [target |-> target, type |-> "click"])} :
         /\ eventHandlers' = w.eventHandlers
         /\ log' = w.log
         /\ thrown' = w.thrown
         /\ lastCall' = [k |-> "event", target |-> target, type |-> "click",
                         root |-> 1, path |-> walkUp(World, 1, target),
                         before |-> eventHandlers, invoked |-> w.invoked]
    /\ UNCHANGED <<pc, nodes, roots, listeners, _vNode, calls, order, normVars,
                   treeVars>>

NextDispatch == Register \/ ClickAt

SpecDispatch == InitDispatch /\ [][NextDispatch]_vars

(***************************************************************************)
(* Specification of the render scenario: renderElement and                 *)
(* setupEventListeners on two containers, and click and blur events at the *)
(* live elements under them; handlers may call renderElement themselves    *)
(***************************************************************************)
Containers == {1, 2}

\* the page before the first call: container 1 holds the text it came with
\* (node 3), container 2 is empty
RenderPage ==
  <<[Container EXCEPT !.childNodes = <<3>>],
    Container,
    [NewNode("text", "", "Loading") EXCEPT !.parent = 1]>>

\* the raw trees passed to renderElement
RenderTrees ==
  {Null, Str("a"), VNode(Fn("Box"), Null, <<Num(0)>>), PanelBox, NothingBox, DivSpan,
   PlainDivButton}
    \cup {DivButton(inner) : inner \in {"h2", "swapInner", "rebind", "toOther"}}

\* the renderElement calls in a log
RenderCalls(lg) == SelectKeep(lg, {i \in 1..Len(lg) : lg[i].op = "renderElement"})

InitRender ==
  /\ pc = "idle"
  /\ nodes = RenderPage
  /\ eventHandlers = EmptyMap
  /\ roots = {}
  /\ listeners = EmptyMap
  /\ _vNode = EmptyMap
  /\ log = <<>>
  /\ thrown = ""
  /\ calls = 0
  /\ order = EmptyMap
  /\ lastCall = None
  /\ NormalizerIdle
  /\ TreesIdle

\* the state the library and the document are left in by a call
Left(w) ==
  /\ nodes' = w.nodes
  /\ eventHandlers' = w.eventHandlers
  /\ roots' = w.roots
  /\ listeners' = w.listeners
  /\ _vNode' = w._vNode
  /\ log' = w.log
  /\ thrown' = w.thrown

Render ==
  \E container \in Containers, vNode \in RenderTrees :
    /\ calls < MaxRenders
    /\ \E w \in {renderElement(World, vNode, container)} : Left(w)
    /\ calls' = calls + 1
    /\ lastCall' = [k |-> "render", vNode |-> vNode, container |-> container,
                    first |-> container \notin DOMAIN _vNode,
                    same |-> /\ container \in DOMAIN _vNode
                             /\ _vNode[container] = normalizeVNode(vNode)]
    /\ UNCHANGED <<pc, order, normVars, treeVars>>

Install ==
  \E root \in Containers :
    /\ \E w \in {setupEventListeners(World, root)} : Left(w)
    /\ lastCall' = [k |-> "setupEventListeners", root |-> root,
                    had |-> root \in roots]
    /\ UNCHANGED <<pc, calls, order, normVars, treeVars>>

RECURSIVE SnapshotAt(_, _, _)
\* the node of the tree stored for root that the live node was rendered from:
\* the stored tree for the first child of root, and below it the child of the
\* same index (undefined where the stored tree has none)
SnapshotAt(w, root, node) ==
  LET p == w.nodes[node].parent
  IN IF p = 0 THEN Undef
     ELSE IF p = root
       THEN IF root \in DOMAIN w._vNode /\ w.nodes[root].childNodes[1] = node
            THEN w._vNode[root] ELSE Undef
     ELSE LET up == SnapshotAt(w, root, p)
          IN IF up.k = "vnode"
             THEN childOfNode(up, IndexOf(w.nodes[p].childNodes, node) - 1)
             ELSE Undef

\* the functions the stored tree gives the live node for an event type
SnapshotHandlers(w, root, node, eventType) ==
  LET entries == entriesOf(propsOfNode(SnapshotAt(w, root, node)))
  IN {entries[i].val : i \in {j \in 1..Len(entries) :
                                 /\ startsWithOn(entries[j].key)
                                 /\ eventTypeOf(entries[j].key) = eventType
                                 /\ entries[j].val.k = "function"}}

\* a click on a live element bubbles to the container above it, whose
\* listener for click runs
Click ==
  \E root \in Containers, target \in 1..Len(nodes) :
    /\ calls < MaxRenders
    /\ nodes[target].nodeType = "element"
    /\ target # root
    /\ Under(World, target, root)
    /\ root \in DOMAIN listeners
    /\ "click" \in DOMAIN listeners[root]
    /\ \E w \in {listener(World, root, "click",
                           [target |-> target, type |-> "click"])} :
         /\ Left(w)
         /\ calls' = calls + Len(RenderCalls(w.log))
         /\ lastCall' = [k |-> "event", target |-> target, type |-> "click",
                         root |-> root, path |-> walkUp(World, root, target),
                         expected |-> [i \in 1..Len(walkUp(World, root, target)) |->
                                         SnapshotHandlers(World, root,
                                           walkUp(World, root, target)[i], "click")],
                         visited |-> w.visited, invoked |-> w.invoked]
    /\ UNCHANGED <<pc, order, normVars, treeVars>>

\* a blur event at a live element under a container that was set up: the
\* platform runs the container's listener for blur if it has one, and no
\* function of the library otherwise
Blur ==
  \E root \in Containers, target \in 1..Len(nodes) :
    /\ calls < MaxRenders
    /\ nodes[target].nodeType = "element"
    /\ target # root
    /\ Under(World, target, root)
    /\ root \in DOMAIN listeners
    /\ \E w \in {IF "blur" \in DOMAIN listeners[root]
                  THEN listener(World, root, "blur", [target |-> target, type |-> "blur"])
                  ELSE World} :
         /\ Left(w)
         /\ calls' = calls + Len(RenderCalls(w.log))
         /\ lastCall' = [k |-> "event", target |-> target, type |-> "blur",
                         root |-> root, path |-> walkUp(World, root, target),
                         expected |-> [i \in 1..Len(walkUp(World, root, target)) |->
                                         SnapshotHandlers(World, root,
                                           walkUp(World, root, target)[i], "blur")],
                         visited |-> w.visited, invoked |-> w.invoked]
    /\ UNCHANGED <<pc, order, normVars, treeVars>>

NextRender == Render \/ Install \/ Click \/ Blur

SpecRender == InitRender /\ [][NextRender]_vars

(***************************************************************************)
(* Specification of the failure scenario: renderElement calls into         *)
(* container 1 of the page, some of which throw                            *)
(***************************************************************************)
\* <ul className={cls}>{text}<Fragment>x</Fragment></ul>: Fragment returns its
\* children, an array, which stays one child of the ul
ListOf(cls, text) ==
  VNode(Str("ul"), Obj(<<[key |-> "className", val |-> Str(cls)]>>),
        <<Str(text), VNode(Fn("Fragment"), Null, <<Str("x")>>)>>)

\* the raw trees whose normalization returns: lists, a text, an element with
\* handlers, an array
FailureTrees ==
  {ListOf("c1", "a"), ListOf("c2", "b"), Str("a"), DivButton("h2"),
   Arr(<<Str("a")>>)}

\* the raw trees whose normalization calls Broken = () => { throw new Error() }
ThrowingTrees ==
  {VNode(Fn("Broken"), Null, <<>>),
   VNode(Str("ul"), Null, <<Str("a"), VNode(Fn("Broken"), Null, <<>>)>>)}

RECURSIVE callsUntilThrow(_)
RECURSIVE callsUntilThrow_items(_, _)
\* the calls vNode.type(props) that normalizeVNode(v) makes, in their order,
\* up to and with the call of Broken, whose error ends the normalization
callsUntilThrow(v) ==
  IF isEmptyInput(v) \/ v.k \in {"number", "string"}
    THEN [calls |-> <<>>, threw |-> FALSE]
  ELSE IF v.k = "array" THEN callsUntilThrow_items(v.items, 1)
  ELSE IF v.type.k = "function"
    THEN LET call == [f |-> v.type.f, props |-> componentProps(v)]
         IN IF v.type.f = "Broken" THEN [calls |-> <<call>>, threw |-> TRUE]
            ELSE LET rest == callsUntilThrow(Call(v.type.f, componentProps(v)))
                 IN [calls |-> <<call>> \o rest.calls, threw |-> rest.threw]
  ELSE callsUntilThrow_items(v.children, 1)

\* items.map(normalizeVNode) from items[i] on: the map ends at the item whose
\* normalization throws
callsUntilThrow_items(items, i) ==
  IF i > Len(items) THEN [calls |-> <<>>, threw |-> FALSE]
  ELSE LET head == callsUntilThrow(items[i])
       IN IF head.threw THEN head
          ELSE LET rest == callsUntilThrow_items(items, i + 1)
               IN [calls |-> head.calls \o rest.calls, threw |-> rest.threw]

\* renderElement(vNode, container 1)
RenderInto ==
  \E vNode \in FailureTrees :
    /\ calls < MaxRenders
    /\ \E w \in {renderElement(World, vNode, 1)} : Left(w)
    /\ calls' = calls + 1
    /\ lastCall' = [k |-> "render", vNode |-> vNode, container |-> 1,
                    first |-> 1 \notin DOMAIN _vNode]
    /\ UNCHANGED <<pc, order, normVars, treeVars>>

\* renderElement(vNode, container 1) for a tree with a component that throws:
\* the error leaves normalizeVNode(vNode), the first statement of
\* renderElement, and the call ends there; the log keeps the component
\* functions called until then
RenderThrowing ==
  \E vNode \in ThrowingTrees :
    /\ calls < MaxRenders
    /\ callsUntilThrow(vNode).threw
    /\ thrown' = "Error: Broken"
    /\ \E cs \in {callsUntilThrow(vNode).calls} :
         log' = <<LogEntry("renderElement", 1, 0, 0, "", vNode)>>
                  \o [i \in 1..Len(cs) |->
                        LogEntry("call", 1, 0, 0, cs[i].f, cs[i].props)]
    /\ calls' = calls + 1
    /\ lastCall' = [k |-> "render", vNode |-> vNode, container |-> 1,
                    first |-> 1 \notin DOMAIN _vNode]
    /\ UNCHANGED <<pc, nodes, eventHandlers, roots, listeners, _vNode, order,
                   normVars, treeVars>>

NextFailure == RenderInto \/ RenderThrowing

SpecFailure == InitRender /\ [][NextFailure]_vars

(***************************************************************************)
(* Claims about the normalizer (checked under SpecNormalize)               *)
(***************************************************************************)
RECURSIVE Fringe(_)
\* The surviving leaves and the element boundaries of a tree, left to right,
\* function components replaced by what they return.
Fringe(v) ==
  CASE isNullish(v) \/ v.k = "boolean" -> <<>>
    [] v.k = "number" -> <<[t |-> "leaf", s |-> NumToString(v.n)]>>
    [] v.k = "string" -> IF v.s = "" THEN <<>> ELSE <<[t |-> "leaf", s |-> v.s]>>
    [] v.k = "array" -> ConcatAll([i \in 1..Len(v.items) |-> Fringe(v.items[i])])
    [] v.k = "vnode" /\ v.type.k = "function" ->
         Fringe(Call(v.type.f, componentProps(v)))
    [] OTHER ->
         <<[t |-> "open", s |-> v.type.s]>>
           \o ConcatAll([i \in 1..Len(v.children) |-> Fringe(v.children[i])])
           \o <<[t |-> "close", s |-> v.type.s]>>

RECURSIVE IsCanonicalNode(_)
\* a string, or an element with a string tag whose children are canonical nodes
IsCanonicalNode(v) ==
  \/ v.k = "string"
  \/ /\ v.k = "vnode"
     /\ v.type.k = "string"
     /\ \A i \in 1..Len(v.children) : IsCanonicalNode(v.children[i])

RECURSIVE BuiltByCreateVNode(_)
\* a raw tree as createVNode builds it: children lists hold no array and no
\* null, undefined, true or false
BuiltByCreateVNode(v) ==
  /\ v.k = "vnode"
  /\ \A i \in 1..Len(v.children) :
       LET c == v.children[i]
       IN /\ c.k \in {"number", "string", "vnode"}
          /\ c.k = "vnode" => BuiltByCreateVNode(c)

RECURSIVE NoEmptyLeaf(_)
\* no null, undefined, boolean or "" inside any array or children list
NoEmptyLeaf(v) ==
  LET items == IF v.k = "array" THEN v.items
               ELSE IF v.k = "vnode" THEN v.children ELSE <<>>
  IN \A i \in 1..Len(items) :
       /\ ~isNullish(items[i])
       /\ items[i].k # "boolean"
       /\ ~(items[i].k = "string" /\ items[i].s = "")
       /\ NoEmptyLeaf(items[i])

\* C2: normalizing the result of normalizeVNode again returns an equal tree:
\* normalize(normalize(r)) = normalize(r) for every raw tree r.
C2_Idempotent == pc = "renormalized" => out2 = out1

\* a component call that normalized to an element with children, normalized twice
C2_Witness ==
  /\ pc = "renormalized"
  /\ raw.k = "vnode" /\ raw.type.k = "function"
  /\ out1.k = "vnode" /\ Len(out1.children) > 0
  /\ out2 = out1

\* C3: every node of the output of normalizeVNode is a string or an element
\* with a string tag whose children are such nodes (no array, no function
\* type, no null/boolean/undefined in any children list).  Stated for the raw
\* trees createVNode builds; the output itself may be a sequence of nodes.
C3_CanonicalOutput ==
  (pc = "normalized" /\ BuiltByCreateVNode(raw)) =>
    IF out1.k = "array"
    THEN \A i \in 1..Len(out1.items) : IsCanonicalNode(out1.items[i])
    ELSE IsCanonicalNode(out1)

\* C4: normalizeVNode of an array, nested to any depth, is a flat sequence of
\* canonical nodes (no item of the result is an array) that keeps the order
\* of the surviving leaves.
C4_FlatSequence ==
  (pc = "normalized" /\ raw.k = "array") =>
    /\ out1.k = "array"
    /\ \A i \in 1..Len(out1.items) : out1.items[i].k # "array"
    /\ Fringe(out1) = Fringe(raw)

\* C5: the normalized result holds no null, undefined, true, false or ""
\* in any children list or array, and keeps every other leaf (0 as "0")
\* in its original relative order.
C5_Filtering ==
  pc = "normalized" => NoEmptyLeaf(out1) /\ Fringe(out1) = Fringe(raw)

\* an element whose children null and 0 normalize to the single child "0"
C5_Witness ==
  /\ pc = "normalized"
  /\ raw.k = "vnode" /\ raw.type.k = "string"
  /\ raw.children = <<Null, Num(0)>>
  /\ out1.children = <<Str("0")>>

(***************************************************************************)
(* Claims about function components (checked under SpecComponent)          *)
(***************************************************************************)
\* the entries of a props object other than "children"
OtherEntries(entries) ==
  SelectKeep(entries, {i \in 1..Len(entries) : entries[i].key # "children"})

\* C23: the value normalizeVNode passes to a function component is the
\* original props plus an entry children holding the original, not normalized
\* children list when that list is not empty; when the list is empty no entry
\* is added and the value has exactly the keys and values of the original
\* props, an original entry children included.
C23_ComponentInputProps ==
  lastCall.k = "component" =>
    LET original == entriesOf(raw.props)
        passed == lastCall.props.e
    IN /\ OtherEntries(passed) = OtherEntries(original)
       /\ IF Len(raw.children) > 0
          THEN /\ hasKey(passed, "children")
               /\ valueOf(passed, "children") = Arr(raw.children)
          ELSE passed = original

(***************************************************************************)
(* Claims about createVNode (checked under SpecBuild)                      *)
(***************************************************************************)
RECURSIVE KeptLeaves(_)
\* the values of an argument that are no array and none of null, undefined,
\* true, false, left to right, arrays opened at every depth
KeptLeaves(v) ==
  IF v.k = "array"
    THEN ConcatAll([i \in 1..Len(v.items) |-> KeptLeaves(v.items[i])])
  ELSE IF v.k \in {"null", "undefined", "boolean"} THEN <<>>
  ELSE <<v>>

\* C21: the children of createVNode(type, props, ...children) are the leaves
\* of the variadic children, arrays opened at every depth, without null,
\* undefined, true and false, in their original order; no child is an array or
\* such a value, every other value (0 and "" too) is kept, and type and props
\* are those passed.
C21_Construction ==
  pc = "built" =>
    /\ out1.k = "vnode"
    /\ out1.type = raw.type
    /\ out1.props = raw.props
    /\ \A i \in 1..Len(out1.children) :
         out1.children[i].k \notin {"array", "null", "undefined", "boolean"}
    /\ out1.children = KeptLeaves(Arr(raw.children))

\* createVNode("div", props, [null, [0]], ""): the children are 0 and ""
C21_Witness ==
  /\ pc = "built"
  /\ raw.children = <<Arr(<<Null, Arr(<<Num(0)>>)>>), Str("")>>
  /\ out1.children = <<Num(0), Str("")>>
  /\ out1.props = SomeProps

(***************************************************************************)
(* Claims about updateElement (checked under SpecReconcile)                *)
(***************************************************************************)
\* the handlers registered on a node, per event type, as sets
HandlersOf(w, id) ==
  IF id \in DOMAIN w.eventHandlers
  THEN [t \in DOMAIN w.eventHandlers[id] |-> Range(w.eventHandlers[id][t])]
  ELSE [t \in {} |-> {}]

\* the Set registered for node and type, as a set of handlers
RegisteredAt(node, type) ==
  IF node \in DOMAIN eventHandlers /\ type \in DOMAIN eventHandlers[node]
  THEN Range(eventHandlers[node][type]) ELSE {}

RECURSIVE Shape(_, _)
\* a live subtree without its node ids: tag, text, attributes, boolean
\* properties and handlers of every node, children in order
Shape(w, id) ==
  LET n == w.nodes[id]
  IN [nodeType |-> n.nodeType, tag |-> n.tag, data |-> n.data, attrs |-> n.attrs,
      props |-> n.props, handlers |-> HandlersOf(w, id),
      kids |-> [i \in 1..Len(n.childNodes) |-> Shape(w, n.childNodes[i])]]

ShapeOfChildren(w, id) ==
  [i \in 1..Len(w.nodes[id].childNodes) |-> Shape(w, w.nodes[id].childNodes[i])]

\* the world the current state holds
Now == [nodes |-> nodes, eventHandlers |-> eventHandlers, roots |-> roots,
        listeners |-> listeners, _vNode |-> _vNode, log |-> log,
        thrown |-> thrown]

\* both trees are elements of the same tag: updateElement reuses the element
SameTagPair(old, new) ==
  old.k = "vnode" /\ new.k = "vnode" /\ old.type = new.type

\* the live element created for oldTree (the container's child before the update)
OldElement == Materialized(oldTree).nodes[1].childNodes[1]

\* the entries of the log that detach an existing child of parent
RemovalsAt(parent) ==
  SelectKeep(log, {i \in 1..Len(log) :
                     log[i].op = "removeChild" /\ log[i].node = parent})

\* C1: after updateElement(container, B, A, 0) on the live tree created from A,
\* the container's live tree equals a fresh createElement(B) in structure
\* (tags, texts, child order and count) and in attributes, boolean properties
\* and registered handlers, for all canonical trees A and B.
C1_Convergence ==
  pc = "updated" =>
    /\ thrown = ""
    /\ ShapeOfChildren(Now, 1) = ShapeOfChildren(Materialized(newTree), 1)

\* C8: with old children of length m and new children of length n < m on a
\* reused element, the element ends with exactly n children, equal to the new
\* children at 0..n-1, and no live node of old positions n..m-1 stays attached.
C8_SurplusRemoved ==
  (/\ pc = "updated"
   /\ SameTagPair(oldTree, newTree)
   /\ Len(newTree.children) < Len(oldTree.children)) =>
    LET el == OldElement
        before == Materialized(oldTree).nodes[el].childNodes
        n == Len(newTree.children)
    IN /\ nodes[1].childNodes = <<el>>
       /\ Len(nodes[el].childNodes) = n
       /\ ShapeOfChildren(Now, el) = ShapeOfChildren(Materialized(newTree), 2)
       /\ \A i \in (n + 1)..Len(before) :
            /\ before[i] \notin Range(nodes[el].childNodes)
            /\ nodes[before[i]].parent = 0

\* three old children against one new child: the two surplus nodes are gone
C8_Witness ==
  /\ pc = "updated"
  /\ SameTagPair(oldTree, newTree)
  /\ Len(oldTree.children) = 3 /\ Len(newTree.children) = 1
  /\ Len(nodes[OldElement].childNodes) = 1
  /\ Len(RemovalsAt(OldElement)) = 2

\* old and new differ only in the content of one Text child
OnlyTextDiffers(old, new, i) ==
  /\ SameTagPair(old, new)
  /\ old.props = new.props
  /\ Len(old.children) = Len(new.children)
  /\ i \in 1..Len(old.children)
  /\ old.children[i].k = "string" /\ new.children[i].k = "string"
  /\ old.children[i] # new.children[i]
  /\ \A j \in 1..Len(old.children) : j # i => old.children[j] = new.children[j]

\* C9: when old and new node at a position are elements of the same tag, the
\* live element stays the identical node (never the child of a removeChild or
\* replaceChild); when they differ only in a Text child's content, the one
\* mutation is the overwrite of that existing text node's content.
C9_ElementReused ==
  (pc = "updated" /\ SameTagPair(oldTree, newTree)) =>
    LET el == OldElement
        before == Materialized(oldTree).nodes[el].childNodes
    IN /\ nodes[1].childNodes = <<el>>
       /\ \A e \in Range(log) :
            e.op \in {"removeChild", "replaceChild"} => e.child # el
       /\ \A i \in 1..Len(oldTree.children) :
            /\ (i <= Len(newTree.children)
                  /\ SameTagPair(oldTree.children[i], newTree.children[i]))
                 => (/\ nodes[el].childNodes[i] = before[i]
                     /\ \A e \in Range(log) :
                          e.op \in {"removeChild", "replaceChild"}
                            => e.child # before[i])
            /\ OnlyTextDiffers(oldTree, newTree, i) =>
                 /\ log = <<LogEntry("textContent", before[i], 0, 0, "",
                                     newTree.children[i])>>
                 /\ nodes[el].childNodes = before
                 /\ nodes[before[i]].data = newTree.children[i].s

\* <h1>a</h1> against <h1>b</h1>: one textContent write, the h1 kept
C9_Witness ==
  /\ pc = "updated"
  /\ oldTree = VNode(Str("h1"), Null, <<Str("a")>>)
  /\ newTree = VNode(Str("h1"), Null, <<Str("b")>>)
  /\ nodes[1].childNodes = <<OldElement>>
  /\ Len(log) = 1 /\ log[1].op = "textContent"
  /\ nodes[nodes[OldElement].childNodes[1]].data = "b"

\* C10: when the new children are exactly one fewer than the old children of a
\* reused element, exactly one removeChild is made on that element, and it
\* removes the live node at index oldLength - 1.
C10_OneRemovalAtLastIndex ==
  (/\ pc = "updated"
   /\ SameTagPair(oldTree, newTree)
   /\ Len(newTree.children) = Len(oldTree.children) - 1) =>
    LET el == OldElement
        before == Materialized(oldTree).nodes[el].childNodes
        removals == RemovalsAt(el)
    IN /\ Len(removals) = 1
       /\ removals[1].index = Len(oldTree.children) - 1
       /\ removals[1].child = before[Len(before)]

\* three old children against the first two new: the third live node removed
C10_Witness ==
  /\ pc = "updated"
  /\ SameTagPair(oldTree, newTree)
  /\ Len(oldTree.children) = 3 /\ Len(newTree.children) = 2
  /\ Len(RemovalsAt(OldElement)) = 1
  /\ RemovalsAt(OldElement)[1].index = 2

\* the entries of the log made on node for the attribute, property or key name
LoggedFor(node, name) ==
  SelectKeep(log, {i \in 1..Len(log) : log[i].node = node /\ log[i].name = name})

\* C11: when a key of {checked, disabled, selected, readOnly} is in the old
\* props and not in the new props of a reused element, updateElement assigns
\* false to that property of the live element and makes no removeAttribute
\* and no setAttribute call for the key.
C11_BooleanPropRemoval ==
  (pc = "updated" /\ SameTagPair(oldTree, newTree)) =>
    \A key \in BOOLEAN_PROPS :
      (hasKey(entriesOf(oldTree.props), key)
         /\ ~hasKey(entriesOf(newTree.props), key)) =>
        /\ nodes[OldElement].props[key] = FALSE
        /\ LoggedFor(OldElement, key)
             = <<LogEntry("setProperty", OldElement, 0, 0, key, Bool(FALSE))>>
        /\ key \notin DOMAIN nodes[OldElement].attrs

\* <input disabled> against <input>: the property, true before, is now false
C11_Witness ==
  /\ pc = "updated"
  /\ oldTree = VNode(Str("input"), Obj(<<[key |-> "disabled", val |-> Bool(TRUE)]>>), <<>>)
  /\ newTree = VNode(Str("input"), Null, <<>>)
  /\ Materialized(oldTree).nodes[OldElement].props["disabled"] = TRUE
  /\ nodes[OldElement].props["disabled"] = FALSE
  /\ Len(log) = 1 /\ log[1].op = "setProperty"

\* C19: a key that updateElement adds (absent from the old props, present in
\* the new props) leaves the live element and the handler registry as
\* createElement leaves them for an element with that key and value; a key
\* starting with "on" is registered as a handler only when its value is a
\* function, and is set as a string attribute otherwise.  Stated for an old
\* element without props, so that every key of the new props is an added key.
C19_SameAttributeRules ==
  (/\ pc = "updated"
   /\ SameTagPair(oldTree, newTree)
   /\ entriesOf(oldTree.props) = <<>>) =>
    /\ thrown = ""
    /\ Shape(Now, OldElement) = Shape(Materialized(newTree), OldElement)
    /\ \A i \in 1..Len(entriesOf(newTree.props)) :
         LET e == newTree.props.e[i]
         IN (startsWithOn(e.key) /\ e.val.k # "function") =>
              /\ e.key \in DOMAIN nodes[OldElement].attrs
              /\ ~Registered(eventHandlers, OldElement, eventTypeOf(e.key), e.val)

\* C27: when the old and the new node are both a string or a number (0 and ""
\* too) and their content differs, updateElement writes the string form of the
\* new value into the live text node at the position, which stays the child
\* it was (not removed, not replaced); when the content is the same it makes
\* no mutation.
C27_TextLikeUpdate ==
  (pc = "updated" /\ isTextLike(oldTree) /\ isTextLike(newTree)) =>
    LET before == Materialized(oldTree).nodes[1].childNodes
    IN /\ thrown = ""
       /\ nodes[1].childNodes = before
       /\ IF ToStr(newTree) # ToStr(oldTree)
          THEN /\ log = <<LogEntry("textContent", before[1], 0, 0, "",
                                   Str(ToStr(newTree)))>>
               /\ nodes[before[1]].data = ToStr(newTree)
          ELSE log = <<>>

\* the live nodes that exist before updateElement is called
ExistingNodes == 1..Len(Materialized(oldTree).nodes)

\* C28: updateElement moves no existing live node to another index: after the
\* call the live node at each position below the new length of a reused
\* element is the live node that was at that position before the call or a
\* node created during the call, also when the new children are the old
\* children in another order; an existing node that is still a child is at
\* its old index.
C28_PositionalMatching ==
  (pc = "updated" /\ SameTagPair(oldTree, newTree)) =>
    LET el == OldElement
        created == Materialized(oldTree).nodes
        before == created[el].childNodes
        after == nodes[el].childNodes
    IN /\ Len(after) = Len(newTree.children)
       /\ \A i \in 1..Len(after) :
            \/ i <= Len(before) /\ after[i] = before[i]
            \/ after[i] \notin 1..Len(created)
       /\ \A x \in 1..Len(created) :
            \A parent \in 1..Len(nodes) :
              x \in Range(nodes[parent].childNodes) =>
                /\ parent \in 1..Len(created)
                /\ IndexOf(nodes[parent].childNodes, x)
                     = IndexOf(created[parent].childNodes, x)

\* <ul>a<p/></ul> against <ul><p/>a</ul>: both positions hold created nodes,
\* the old text node and the old p are detached
C28_Witness ==
  /\ pc = "updated"
  /\ oldTree = VNode(Str("ul"), Null, <<Str("a"), VNode(Str("p"), Null, <<>>)>>)
  /\ newTree = VNode(Str("ul"), Null, <<VNode(Str("p"), Null, <<>>), Str("a")>>)
  /\ nodes[OldElement].childNodes = <<5, 6>>
  /\ nodes[3].parent = 0 /\ nodes[4].parent = 0
  /\ nodes[5].tag = "p" /\ nodes[6].data = "a"

\* C26: within one reused element, the child positions are matched and
\* updated in strictly ascending index order; no surplus live child is removed
\* before every position below the new length has been matched; the surplus
\* live children (old positions newLength..oldLength-1) are then removed in
\* strictly descending order of their original index.
C26_ReconcileOrdering ==
  (pc = "updated" /\ SameTagPair(oldTree, newTree)) =>
    LET el == OldElement
        before == Materialized(oldTree).nodes[el].childNodes
        \* the calls on the children of el, and the original position of each
        touched == {i \in 1..Len(log) :
                      \/ log[i].op \in {"removeChild", "replaceChild", "appendChild"}
                           /\ log[i].node = el
                      \/ log[i].op = "textContent" /\ log[i].node \in Range(before)}
        position(i) == IF log[i].op = "textContent" THEN IndexOf(before, log[i].node) - 1
                       ELSE IF log[i].op = "appendChild" THEN log[i].index
                       ELSE IndexOf(before, log[i].child) - 1
        removals == {i \in touched : log[i].op = "removeChild"}
        matches == touched \ removals
    IN /\ \A i, j \in matches : i < j => position(i) < position(j)
       /\ \A i \in matches, j \in removals : i < j
       /\ \A i, j \in removals : i < j => position(i) > position(j)
       /\ {position(i) : i \in removals}
            = {q \in 0..(Len(oldTree.children) - 1) : q >= Len(newTree.children)}

\* the keys of a props object that name the event type
KeysOfType(props, eventType) ==
  {e.key : e \in {x \in Range(entriesOf(props)) :
                    startsWithOn(x.key) /\ eventTypeOf(x.key) = eventType}}

\* old and new props of a reused element give key, their one key for its event
\* type, two different functions
HandlerReplaced(key) ==
  /\ SameTagPair(oldTree, newTree)
  /\ KeysOfType(oldTree.props, eventTypeOf(key)) = {key}
  /\ KeysOfType(newTree.props, eventTypeOf(key)) = {key}
  /\ valueOf(entriesOf(oldTree.props), key).k = "function"
  /\ valueOf(entriesOf(newTree.props), key).k = "function"
  /\ valueOf(entriesOf(oldTree.props), key) # valueOf(entriesOf(newTree.props), key)

\* C25: when the on-X attribute of a reused element changes from a handler h1
\* to another handler h2 (X being the element's one attribute for its event
\* type), updateElement calls removeEvent for h1 and then addEvent for h2 on
\* the same live element; afterwards the handlers registered on the element
\* for the type are exactly {h2}, and an event of the type dispatched at the
\* element invokes h2 and not h1.
C25_HandlerReplacement ==
  \A key \in {"onClick", "onclick"} :
    (pc \in {"updated", "listening", "clicked"} /\ HandlerReplaced(key)) =>
      LET h1 == valueOf(entriesOf(oldTree.props), key)
          h2 == valueOf(entriesOf(newTree.props), key)
      IN /\ nodes[1].childNodes = <<OldElement>>
         /\ RegisteredAt(OldElement, eventTypeOf(key)) = {h2}
         /\ pc = "updated" =>
              LoggedFor(OldElement, eventTypeOf(key))
                = <<LogEntry("removeEvent", OldElement, 0, 0, eventTypeOf(key), h1),
                    LogEntry("addEvent", OldElement, 0, 0, eventTypeOf(key), h2)>>
         /\ pc = "clicked" =>
              /\ thrown = ""
              /\ [i \in 1..Len(lastCall.invoked) |->
                    <<lastCall.invoked[i].node, lastCall.invoked[i].handler>>]
                   = <<(<<OldElement, h2>>)>>

\* <input onClick={h1}/> against <input onClick={h2}/>, then a click on the
\* input: h2 ran
C25_Witness ==
  /\ pc = "clicked"
  /\ oldTree = VNode(Str("input"), Obj(<<[key |-> "onClick", val |-> Fn("h1")]>>), <<>>)
  /\ newTree = VNode(Str("input"), Obj(<<[key |-> "onClick", val |-> Fn("h2")]>>), <<>>)
  /\ Materialized(oldTree).eventHandlers[OldElement]["click"] = <<Fn("h1")>>
  /\ lastCall.invoked[1].handler = Fn("h2")

\* C33: whatever the values of the on-keys of the old and the new tree are
\* (functions, null, undefined, strings), every value stored in eventHandlers
\* is a function, and the listener never throws for calling a value that is
\* no function.
C33_CallableRegistry ==
  /\ \A node \in DOMAIN eventHandlers :
       \A type \in DOMAIN eventHandlers[node] :
         \A h \in Range(eventHandlers[node][type]) : h.k = "function"
  /\ pc = "clicked" => thrown = ""

\* the live state a key addresses: a handler Set, a boolean property or a
\* string attribute (className addresses the attribute class)
LiveStateOf(key, value) ==
  IF startsWithOn(key) /\ value.k = "function"
    THEN <<"handlers", eventTypeOf(key)>>
  ELSE IF key \in BOOLEAN_PROPS THEN <<"property", key>>
  ELSE <<"attribute", IF key = "className" THEN "class" ELSE key>>

\* whether the live element holds what a key with a value establishes
Established(el, key, value) ==
  LET state == LiveStateOf(key, value)
  IN IF state[1] = "handlers" THEN value \in RegisteredAt(el, state[2])
     ELSE IF state[1] = "property" THEN nodes[el].props[key] = Truthy(value)
     ELSE /\ state[2] \in DOMAIN nodes[el].attrs
          /\ nodes[el].attrs[state[2]] = ToStr(value)

\* the keys of the old props that the new props do not have
RemovedKeys(old, new) ==
  {e.key : e \in {x \in Range(entriesOf(old.props)) :
                    ~hasKey(entriesOf(new.props), x.key)}}

\* the entries of the new props whose value is that of the old props, and
\* whose live state no other key of the new props addresses
UnchangedEntries(old, new) ==
  {e \in Range(entriesOf(new.props)) :
     /\ hasKey(entriesOf(old.props), e.key)
     /\ StrictEq(valueOf(entriesOf(old.props), e.key), e.val)
     /\ \A x \in Range(entriesOf(new.props)) :
          LiveStateOf(x.key, x.val) = LiveStateOf(e.key, e.val) => x = e}

\* C34: when updateElement takes a key off a reused element (the key is in
\* the old props and not in the new props), the live attribute, property or
\* registered handler that a key still present and unchanged in the new props
\* establishes is still there afterwards, also when the removed key and the
\* kept key address the same live state (className and class, onClick and
\* onclick with the same handler).
C34_RemovalFrame ==
  (/\ pc = "updated"
   /\ SameTagPair(oldTree, newTree)
   /\ RemovedKeys(oldTree, newTree) # {}) =>
    \A e \in UnchangedEntries(oldTree, newTree) :
      Established(OldElement, e.key, e.val)

(***************************************************************************)
(* Claims about updateElement on an unchanged tree (checked under          *)
(* SpecUnchanged)                                                          *)
(***************************************************************************)
\* C31: updateElement(container, A, A, 0) on the live tree created from a
\* canonical tree A makes no mutation of the live tree (no setAttribute, no
\* removeAttribute, no property assignment, no text write, no append, removal
\* or replacement) and no change of the handler registry.
C31_UnchangedTreeNoOp ==
  pc = "updated" =>
    /\ thrown = ""
    /\ log = <<>>
    /\ nodes = Materialized(oldTree).nodes
    /\ eventHandlers = Materialized(oldTree).eventHandlers

(***************************************************************************)
(* Claims about updateElement on a drifted document (checked under         *)
(* SpecDrift)                                                              *)
(***************************************************************************)
\* a description without the children from index keep on
Truncated(v, keep) ==
  [v EXCEPT !.children = SubSeq(@, 1, IF Len(@) < keep THEN Len(@) ELSE keep)]

\* C29: when updateElement has to remove, replace or reuse the live child at
\* a position (every call but the append of case 2, newNode && !oldNode) and
\* the parent has no live child at that index, the call makes no mutation and
\* no registry change for the position, creates no node and throws nothing.
\* With the container's child gone, the whole call leaves the document and
\* the registry as they were.  With the last child of the reused element
\* gone, and no new child beyond the old length, the call does exactly what
\* it does for the two trees without that last position.
C29_ToleratedDrift ==
  /\ (/\ pc = "updated after drift"
      /\ lastCall.detached = 1
      /\ ~(Truthy(newTree) /\ ~Truthy(oldTree))) =>
       /\ thrown = ""
       /\ log = <<>>
       /\ nodes = lastCall.nodes
       /\ eventHandlers = lastCall.eventHandlers
  /\ (/\ pc = "updated after drift"
      /\ lastCall.detached # 1
      /\ SameTagPair(oldTree, newTree)
      /\ Len(newTree.children) <= Len(oldTree.children)) =>
       LET keep == Len(oldTree.children) - 1
           w == updateElement([World EXCEPT !.nodes = lastCall.nodes,
                                            !.eventHandlers = lastCall.eventHandlers],
                              1, Truncated(newTree, keep), Truncated(oldTree, keep), 0)
       IN /\ thrown = ""
          /\ nodes = w.nodes
          /\ eventHandlers = w.eventHandlers
          /\ log = w.log

\* <ul onClick={h1}>a</ul> was taken out of the container; the update to
\* <ul className="c1" onClick={h2}/> then changed nothing
C29_Witness ==
  /\ pc = "updated after drift"
  /\ lastCall.detached = 1
  /\ oldTree = VNode(Str("ul"), Obj(<<[key |-> "onClick", val |-> Fn("h1")]>>),
                     <<Str("a")>>)
  /\ newTree = VNode(Str("ul"), Obj(<<[key |-> "className", val |-> Str("c1")],
                                      [key |-> "onClick", val |-> Fn("h2")]>>), <<>>)
  /\ nodes[1].childNodes = <<>>
  /\ RegisteredAt(2, "click") = {Fn("h1")}
  /\ log = <<>>

(***************************************************************************)
(* Claims about createElement (checked under SpecCreate)                   *)
(***************************************************************************)
RECURSIVE ReachesFunctionType(_)
\* the node, or a descendant through children lists and arrays, has a
\* function as its type
ReachesFunctionType(v) ==
  \/ v.k = "vnode" /\ v.type.k = "function"
  \/ v.k = "vnode" /\ v.type.k # "function"
       /\ \E i \in 1..Len(v.children) : ReachesFunctionType(v.children[i])
  \/ v.k = "array" /\ \E i \in 1..Len(v.items) : ReachesFunctionType(v.items[i])

\* the calls of the log that attach a node to a parent
Attachments ==
  SelectKeep(log, {i \in 1..Len(log) : log[i].op \in {"appendChild", "replaceChild"}})

\* C18 as stated: createElement throws for a tree that holds a node whose type
\* is a function, at the top or below, and the failing call attached no node
\* to any parent.
C18_ThrowsAttachingNothing ==
  (pc = "created" /\ ReachesFunctionType(raw)) =>
    /\ thrown # ""
    /\ Attachments = <<>>

\* C18 amended: createElement throws for such a tree; the
\* nodes that existed before the call are unchanged, and every node the
\* failing call attached went under a node that the same call created (the
\* element it was building when it threw).
C18_ThrowsAttachingNothingOutside ==
  (pc = "created" /\ ReachesFunctionType(raw)) =>
    /\ thrown # ""
    /\ nodes[1] = Container
    /\ \A i \in 1..Len(Attachments) : Attachments[i].node > 1
    /\ \A id \in 1..Len(nodes) : nodes[id].parent # 1

\* <div>a<Box/></div>: the text was appended to the new div, then Box threw
C18_Witness ==
  /\ pc = "created"
  /\ raw = VNode(Str("div"), Null, <<Str("a"), VNode(Fn("Box"), Null, <<>>)>>)
  /\ thrown # ""
  /\ Len(Attachments) = 1
  /\ nodes[1] = Container

(***************************************************************************)
(* Claims about the event manager (checked under SpecEvents)               *)
(***************************************************************************)
\* how many times the dispatch invoked handler at element
Invocations(invoked, element, handler) ==
  Cardinality({i \in 1..Len(invoked) :
                 invoked[i].node = element /\ invoked[i].handler = Fn(handler)})

\* C6: once addEvent(element, type, h) was called two or more times with no
\* removeEvent in between, an event of that type whose path holds the element
\* invokes h exactly once at that element.
C6_Dedup ==
  lastCall.k = "event" =>
    \A t \in EvTriples :
      (/\ calls[t] >= 2
       /\ t[2] = lastCall.type
       /\ t[1] \in Range(walkUp(Now, lastCall.root, lastCall.target)))
        => Invocations(lastCall.invoked, t[1], t[3]) = 1

\* h1 added twice on the div, a click on the button below it: h1 ran once
C6_Witness ==
  /\ lastCall.k = "event"
  /\ lastCall.target = 3 /\ lastCall.type = "click"
  /\ calls[<<2, "click", "h1">>] = 2
  /\ Invocations(lastCall.invoked, 2, "h1") = 1

\* C7: after any addEvent and removeEvent calls, an element has an entry in
\* eventHandlers exactly when a handler is registered on it, and every event
\* type entry of an element holds a Set that is not empty.
C7_RegistryCleanup ==
  /\ \A element \in {t[1] : t \in EvTriples} :
       element \in DOMAIN eventHandlers
         <=> \E t \in EvTriples : t[1] = element /\ calls[t] > 0
  /\ \A element \in DOMAIN eventHandlers :
       \A type \in DOMAIN eventHandlers[element] :
         /\ eventHandlers[element][type] # <<>>
         /\ \E t \in EvTriples :
              t[1] = element /\ t[2] = type /\ calls[t] > 0

\* the last handler of the div was just removed: the div has no entry left,
\* while the button keeps its own
C7_Witness ==
  /\ lastCall.k = "removeEvent"
  /\ lastCall.triple[1] = 2
  /\ lastCall.had
  /\ 2 \notin DOMAIN eventHandlers
  /\ 3 \in DOMAIN eventHandlers

\* the entries of a dispatch's calls made at node, in the order of the calls
InvokedAt(invoked, node) ==
  SelectKeep(invoked, {i \in 1..Len(invoked) : invoked[i].node = node})

\* the nodes from node upward, node included, to the top of the document
RECURSIVE SelfAndAbove(_)
SelfAndAbove(node) ==
  IF node = 0 THEN {} ELSE {node} \cup SelfAndAbove(nodes[node].parent)

\* C15: for one dispatched event the listener of a root invokes handlers node
\* by node, from the event's target strictly child to parent, at every node
\* below the root on that path; it stops at the root or at a node without a
\* parent, so no handler registered on the root or on a node above the root
\* is invoked.
C15_BubblingOrder ==
  lastCall.k = "event" =>
    LET path == walkUp(Now, lastCall.root, lastCall.target)
        inv == lastCall.invoked
    IN /\ \A i, j \in 1..Len(inv) :
            i < j => IndexOf(path, inv[i].node) <= IndexOf(path, inv[j].node)
       /\ \A n \in Range(path) :
            {e.handler : e \in Range(InvokedAt(inv, n))} = RegisteredAt(n, lastCall.type)
       /\ \A i \in 1..Len(inv) :
            /\ inv[i].node \in Range(path)
            /\ inv[i].node \notin SelfAndAbove(lastCall.root)

\* a click on the button with handlers on the button, the div and the root
\* container: the button's handler ran, then the div's, the root's did not
C15_Witness ==
  /\ lastCall.k = "event"
  /\ lastCall.root = 1 /\ lastCall.target = 3 /\ lastCall.type = "click"
  /\ RegisteredAt(1, "click") # {}
  /\ [i \in 1..Len(lastCall.invoked) |-> lastCall.invoked[i].node] = <<3, 2>>

\* C16: for one node and one event type, a dispatch invokes the registered
\* handlers in the order in which they were first registered, each with the
\* event object the listener received; adding a handler that is already
\* registered does not change its place.
C16_RegistrationOrder ==
  lastCall.k = "event" =>
    \A n \in Range(walkUp(Now, lastCall.root, lastCall.target)) :
      LET at == InvokedAt(lastCall.invoked, n)
          first == IF <<n, lastCall.type>> \in DOMAIN order
                   THEN order[<<n, lastCall.type>>] ELSE <<>>
      IN /\ [i \in 1..Len(at) |-> at[i].handler] = first
         /\ \A i \in 1..Len(at) :
              at[i].event = [target |-> lastCall.target, type |-> lastCall.type]

\* h2 was registered on the div before h1 and then registered again: a click
\* below the div still runs h2 first
C16_Witness ==
  /\ lastCall.k = "event"
  /\ lastCall.root = 1 /\ lastCall.type = "click"
  /\ calls[<<2, "click", "h2">>] = 2
  /\ order[<<2, "click">>] = <<Fn("h2"), Fn("h1")>>
  /\ [i \in 1..Len(InvokedAt(lastCall.invoked, 2)) |->
        InvokedAt(lastCall.invoked, 2)[i].handler] = <<Fn("h2"), Fn("h1")>>

\* C32: for any set of roots setupEventListeners was called for, a root that
\* lies under another root included, one platform event invokes each handler
\* registered on a node of its path at most once.
C32_AtMostOncePerEvent ==
  lastCall.k = "dispatchEvent" =>
    \A i, j \in 1..Len(lastCall.invoked) :
      (/\ lastCall.invoked[i].node = lastCall.invoked[j].node
       /\ lastCall.invoked[i].handler = lastCall.invoked[j].handler) => i = j

\* C17: removeEvent(element, type, handler) for an element without an entry,
\* for a type without a Set, or for a handler that is not in the Set throws
\* nothing and leaves eventHandlers as it was.
C17_UnregisterNoOp ==
  [][(lastCall'.k = "removeEvent" /\ ~lastCall'.had)
       => (eventHandlers' = eventHandlers /\ thrown' = "")]_vars

\* h2 was removed from the div's click Set, which holds h1 only
C17_Witness ==
  /\ lastCall.k = "removeEvent"
  /\ ~lastCall.had
  /\ lastCall.triple = <<2, "click", "h2">>
  /\ RegisteredAt(2, "click") = {Fn("h1")}
  /\ thrown = ""

(***************************************************************************)
(* Claims about handlers that change the registry (checked under           *)
(* SpecDispatch)                                                           *)
(***************************************************************************)
\* the handlers a registry holds for node and type, in the order of the Set
SetAt(eh, node, type) ==
  IF node \in DOMAIN eh /\ type \in DOMAIN eh[node] THEN eh[node][type] ELSE <<>>

\* C35: the handlers a dispatch invokes at a node are exactly those
\* registered for the node and the event type when the walk reaches the node;
\* a handler that another handler registers on that node and type while the
\* dispatch runs is not invoked by the running dispatch.  (The handlers of
\* the scenario change the registration of the event's target only, and the
\* walk starts there: what is registered when the walk reaches a node is what
\* was registered when the dispatch started.)
C35_DispatchSnapshot ==
  lastCall.k = "event" =>
    \A n \in Range(lastCall.path) :
      LET at == InvokedAt(lastCall.invoked, n)
      IN [i \in 1..Len(at) |-> at[i].handler] = SetAt(lastCall.before, n, "click")

(***************************************************************************)
(* Claims about renderElement (checked under SpecRender)                   *)
(***************************************************************************)
\* whether the last call emptied a container through innerHTML
Cleared == \E i \in 1..Len(log) : log[i].op = "innerHTML"

\* C12: after every renderElement(vNode, container) call that returns,
\* container._vNode is normalizeVNode(vNode) of that call, whatever was stored
\* before (one stored tree per container, replaced and never merged).
C12_SnapshotReplaced ==
  (lastCall.k = "render" /\ thrown = "") =>
    /\ lastCall.container \in DOMAIN _vNode
    /\ _vNode[lastCall.container] = normalizeVNode(lastCall.vNode)

\* a second render into container 1, with a component: the stored tree is the
\* <p>0</p> the component returned
C12_Witness ==
  /\ lastCall.k = "render"
  /\ ~lastCall.first
  /\ lastCall.container = 1
  /\ lastCall.vNode = VNode(Fn("Box"), Null, <<Num(0)>>)
  /\ _vNode[1] = VNode(Str("p"), Null, <<Str("0")>>)

\* C13: renderElement empties the container and creates the tree from scratch
\* only on the first call for that container; every later call for it,
\* whatever the earlier trees were (those normalizing to the empty text too),
\* goes through updateElement against the stored tree and does not empty the
\* container.
C13_ClearsOnlyOnFirstRender ==
  lastCall.k = "render" => (Cleared <=> lastCall.first)

\* C14: after any number of setupEventListeners(root) and
\* renderElement(_, root) calls, root has exactly one listener for each of
\* click, input, change, submit, mouseover, focus and keydown and is in roots;
\* a node no such call was made for has none.
C14_OneListenerPerType ==
  /\ \A c \in roots :
       /\ c \in DOMAIN listeners
       /\ DOMAIN listeners[c] =
            {"click", "input", "change", "submit", "mouseover", "focus", "keydown"}
       /\ \A t \in DOMAIN listeners[c] : listeners[c][t] = 1
  /\ DOMAIN listeners = roots
  /\ DOMAIN _vNode \subseteq roots
  /\ (lastCall.k = "setupEventListeners" /\ thrown = "") => lastCall.root \in roots
  /\ (lastCall.k = "render" /\ thrown = "") => lastCall.container \in roots

\* setupEventListeners on a container that was rendered into, and so was
\* already in roots: still one click listener
C14_Witness ==
  /\ lastCall.k = "setupEventListeners"
  /\ lastCall.had
  /\ lastCall.root \in DOMAIN _vNode
  /\ listeners[lastCall.root]["click"] = 1
  /\ listeners[lastCall.root]["keydown"] = 1

\* C20: when a handler invoked during a dispatch calls renderElement, for the
\* same or another container, the nested call completes as a render (the
\* stored tree and the live tree of its container are those of its vNode) and
\* the listener then goes on toward the root: every node that lay between the
\* event's target and the root when the event was dispatched is visited once,
\* no handler is invoked twice, and nothing is thrown.
C20_ReentrantRender ==
  (lastCall.k = "event" /\ RenderCalls(log) # <<>>) =>
    /\ thrown = ""
    /\ \A i \in 1..Len(RenderCalls(log)) :
         LET call == RenderCalls(log)[i]
         IN /\ _vNode[call.node] = normalizeVNode(call.value)
            /\ ShapeOfChildren(Now, call.node)
                 = ShapeOfChildren(Materialized(normalizeVNode(call.value)), 1)
    /\ lastCall.visited = lastCall.path
    /\ \A i, j \in 1..Len(lastCall.invoked) :
         (/\ lastCall.invoked[i].node = lastCall.invoked[j].node
          /\ lastCall.invoked[i].handler = lastCall.invoked[j].handler) => i = j

\* the component calls in a log
ComponentCalls(lg) == SelectKeep(lg, {i \in 1..Len(lg) : lg[i].op = "call"})

RECURSIVE SumAll(_)
SumAll(ns) == IF ns = <<>> THEN 0 ELSE Head(ns) + SumAll(Tail(ns))

RECURSIVE WrittenComponents(_)
\* the descriptions with a function type written in a raw tree: the node, the
\* items of arrays and the children of every description, those of
\* components too
WrittenComponents(v) ==
  LET items == IF v.k = "array" THEN v.items
               ELSE IF v.k = "vnode" THEN v.children ELSE <<>>
  IN (IF v.k = "vnode" /\ v.type.k = "function" THEN {v} ELSE {})
       \cup UNION {WrittenComponents(items[i]) : i \in 1..Len(items)}

RECURSIVE PlacedComponents(_)
\* the descriptions with a function type written at the node, in arrays and
\* in the children of elements, not in the children of a component
PlacedComponents(v) ==
  LET items == IF v.k = "array" THEN v.items
               ELSE IF v.k = "vnode" /\ v.type.k # "function" THEN v.children
               ELSE <<>>
  IN (IF v.k = "vnode" /\ v.type.k = "function" THEN {v} ELSE {})
       \cup UNION {PlacedComponents(items[i]) : i \in 1..Len(items)}

RECURSIVE ReachedOccurrences(_)
\* how many descriptions with a function type lie in a raw tree once every
\* component is replaced by what it returns
ReachedOccurrences(v) ==
  CASE v.k = "array" ->
         SumAll([i \in 1..Len(v.items) |-> ReachedOccurrences(v.items[i])])
    [] v.k = "vnode" /\ v.type.k = "function" ->
         1 + ReachedOccurrences(Call(v.type.f, componentProps(v)))
    [] v.k = "vnode" /\ v.type.k # "function" ->
         SumAll([i \in 1..Len(v.children) |-> ReachedOccurrences(v.children[i])])
    [] OTHER -> 0

\* whether the last call invoked the function of description d with its props
InvokedFor(d) ==
  \E i \in 1..Len(log) :
    /\ log[i].op = "call"
    /\ log[i].name = d.type.f
    /\ log[i].value = componentProps(d)

\* C24 as stated: every renderElement call invokes each function-component
\* occurrence written in the raw tree, and each one that another component
\* returns, exactly once, also when the tree is that of the previous render
\* into the container.
C24_NoMemoization ==
  lastCall.k = "render" =>
    /\ \A d \in WrittenComponents(lastCall.vNode) : InvokedFor(d)
    /\ Len(ComponentCalls(log)) = ReachedOccurrences(lastCall.vNode)

\* C24 amended: every renderElement call invokes, once per occurrence, each
\* function component that normalization reaches: the root, array items, the
\* children of elements and what components return; a component written among
\* the children of another component is invoked only as far as that
\* component's result holds it.  The same calls are made again when the tree
\* is that of the previous render into the container.
C24_InvokesReachedComponents ==
  lastCall.k = "render" =>
    /\ \A d \in PlacedComponents(lastCall.vNode) : InvokedFor(d)
    /\ Len(ComponentCalls(log)) = ReachedOccurrences(lastCall.vNode)

\* <Panel><Box>0</Box></Panel> rendered again into the container that holds
\* its result: Panel, the Box it returns and the Box inside are called again
C24_Witness ==
  /\ lastCall.k = "render"
  /\ lastCall.same
  /\ lastCall.vNode = PanelBox
  /\ [i \in 1..Len(ComponentCalls(log)) |-> ComponentCalls(log)[i].name]
       = <<"Panel", "Box", "Box">>

\* the event types the library delegates
SupportedTypes ==
  {"click", "input", "change", "submit", "mouseover", "focus", "keydown"}

\* C22: a click dispatched at a live element after any renderElement calls
\* invokes, at each node from the target up to the container (not included),
\* exactly the function the tree last rendered into the container gives that
\* node as its onClick (none where it gives none), once, and invokes no
\* handler at any other node: a handler of an earlier tree only is not called.
C22_DispatchMatchesSnapshot ==
  (lastCall.k = "event" /\ lastCall.type \in SupportedTypes) =>
    /\ thrown = ""
    /\ \A i \in 1..Len(lastCall.path) :
         LET at == InvokedAt(lastCall.invoked, lastCall.path[i])
         IN /\ {at[j].handler : j \in 1..Len(at)} = lastCall.expected[i]
            /\ Len(at) = Cardinality(lastCall.expected[i])
    /\ \A i \in 1..Len(lastCall.invoked) :
         lastCall.invoked[i].node \in Range(lastCall.path)

\* C30: a handler given for an event type outside click, input, change,
\* submit, mouseover, focus and keydown (the onBlur of a rendered tree) is
\* stored in eventHandlers for the live element, and no listener invokes it:
\* an event of that type at the element or below it calls no handler, and an
\* event of a delegated type calls at each node only functions the stored
\* tree gives the node for that type.
C30_UnsupportedNeverInvoked ==
  /\ \A c \in DOMAIN _vNode :
       \A n \in 1..Len(nodes) :
         (nodes[n].nodeType = "element" /\ n # c /\ Under(Now, n, c)) =>
           SnapshotHandlers(Now, c, n, "blur") \subseteq RegisteredAt(n, "blur")
  /\ lastCall.k = "event" =>
       /\ lastCall.type \notin SupportedTypes =>
            lastCall.invoked = <<>> /\ lastCall.visited = <<>>
       /\ \A i \in 1..Len(lastCall.invoked) :
            /\ lastCall.invoked[i].event.type \in SupportedTypes
            /\ \E j \in 1..Len(lastCall.path) :
                 /\ lastCall.path[j] = lastCall.invoked[i].node
                 /\ lastCall.invoked[i].handler \in lastCall.expected[j]

\* a blur event at the button of <div><button onClick={h1} onBlur={h2}/></div>:
\* h2 is registered for blur on the button and was not called
C30_Witness ==
  /\ lastCall.k = "event"
  /\ lastCall.type = "blur"
  /\ nodes[lastCall.target].tag = "button"
  /\ RegisteredAt(lastCall.target, "blur") = {Fn("h2")}
  /\ lastCall.root \in roots
  /\ lastCall.invoked = <<>>

\* the nodes below root in a document
Below(ns, root) ==
  {n \in 1..Len(ns) : n # root /\ Under([nodes |-> ns], n, root)}

\* C36: renderElement(t, A) leaves another container B, neither under A nor
\* above it, as it was: the live nodes below B, the tree stored for B, the
\* eventHandlers entries of the nodes below B, and whether B is in roots.
C36_ContainerIndependence ==
  [][lastCall'.k = "render" =>
       \A B \in Containers \ {lastCall'.container} :
         /\ nodes'[B] = nodes[B]
         /\ \A n \in Below(nodes, B) :
              /\ nodes'[n] = nodes[n]
              /\ n \in DOMAIN eventHandlers' <=> n \in DOMAIN eventHandlers
              /\ n \in DOMAIN eventHandlers => eventHandlers'[n] = eventHandlers[n]
         /\ B \in DOMAIN _vNode' <=> B \in DOMAIN _vNode
         /\ B \in DOMAIN _vNode => _vNode'[B] = _vNode[B]
         /\ B \in roots' <=> B \in roots]_vars

\* container 2 holds <div onClick={h1}><button onClick={h2}/></div> with its
\* handlers registered, and the first render into container 1 has just
\* emptied that container and filled it
C36_Witness ==
  /\ lastCall.k = "render"
  /\ lastCall.container = 1
  /\ lastCall.first
  /\ Cleared
  /\ 2 \in roots
  /\ 2 \in DOMAIN _vNode
  /\ _vNode[2] = DivButton("h2")
  /\ Len(nodes[2].childNodes) = 1
  /\ RegisteredAt(nodes[2].childNodes[1], "click") = {Fn("h1")}
  /\ nodes[1].childNodes # <<>>

(***************************************************************************)
(* Claims about renderElement calls that throw (checked under SpecFailure) *)
(***************************************************************************)
\* C37: when a renderElement call throws (a component throws while the tree
\* is normalized, or createElement or updateElement throws part-way), the
\* live tree of the container, the tree stored for it, eventHandlers and
\* roots are what they were before the call.
C37_FailedRenderIntact ==
  [][(lastCall'.k = "render" /\ thrown' # "") =>
       LET c == lastCall'.container
       IN /\ nodes'[c] = nodes[c]
          /\ \A n \in Below(nodes, c) : nodes'[n] = nodes[n]
          /\ eventHandlers' = eventHandlers
          /\ roots' = roots
          /\ _vNode' = _vNode]_vars

====
